---------------------------- MODULE Spec2Model ----------------------------
(***************************************************************************)
(* Model of the Techstore query-time pipeline                              *)
(*   src/ingestion/search_service.py      (search, chat, guardrail,        *)
(*                                         intent, filter, backfill)       *)
(*   src/ingestion/response_templates.py  (answer composer)                *)
(*                                                                         *)
(* Text is modelled by strings over ASCII.  Code points outside ASCII are  *)
(* written with one stand-in character each:                               *)
(*     "@"  U+00F4  o with circumflex          "%"  U+00D4  O with circ.   *)
(*     "#"  U+0111  d with stroke (no Unicode decomposition)               *)
(*     "^"  U+0302  combining circumflex accent                            *)
(*     "~"  U+030C  combining caron                                        *)
(*     "&"  U+01F0  j with caron (lower case; no upper-case code point)    *)
(* Fixed Vietnamese sentences of the answers are written without their    *)
(* diacritics; they are only emitted, never matched by the program.        *)
(***************************************************************************)
EXTENDS Integers, Sequences, FiniteSets, TLC

(***************************************************************************)
(* Characters and strings                                                  *)
(***************************************************************************)
UPPER == "ABCDEFGHIJKLMNOPQRSTUVWXYZ%"
LOWER == "abcdefghijklmnopqrstuvwxyz@"
DIGITS == "0123456789"

CharAt(s, i) == SubSeq(s, i, i)

\* Python `k in q` for strings
Contains(q, k) ==
    \E i \in 1..(Len(q) - Len(k) + 1) : SubSeq(q, i, i + Len(k) - 1) = k

\* Python any(k in q for k in keywords)
has_any(q, keywords) == \E k \in keywords : Contains(q, k)

IsDigit(c) == \E i \in 1..Len(DIGITS) : CharAt(DIGITS, i) = c
IsSpace(c) == c = " "
IsCombining(c) == c = "^" \/ c = "~"
\* regex \w : alphanumeric (Unicode letters included) or underscore
IsWord(c) ==
    \/ IsDigit(c)
    \/ \E i \in 1..Len(LOWER) : CharAt(LOWER, i) = c \/ CharAt(UPPER, i) = c
    \/ c = "#"
    \/ c = "&"
    \/ c = "_"

\* str.lower() on one character
LowerChar(c) ==
    IF \E i \in 1..Len(UPPER) : CharAt(UPPER, i) = c
    THEN CharAt(LOWER, CHOOSE i \in 1..Len(UPPER) : CharAt(UPPER, i) = c)
    ELSE c

\* Compatibility decomposition (NFKD) of one character
DecomposeChar(c) ==
    IF c = "@" THEN "o^"
    ELSE IF c = "%" THEN "O^"
    ELSE IF c = "&" THEN "j~"
    ELSE c

RECURSIVE lower(_)
lower(s) ==
    IF Len(s) = 0 THEN ""
    ELSE LowerChar(CharAt(s, 1)) \o lower(SubSeq(s, 2, Len(s)))

RECURSIVE NFKD(_)
NFKD(s) ==
    IF Len(s) = 0 THEN ""
    ELSE DecomposeChar(CharAt(s, 1)) \o NFKD(SubSeq(s, 2, Len(s)))

\* Canonical composition (NFC): a base letter followed by a combining mark
\* is replaced by the precomposed letter when one exists (J followed by the
\* caron has none).
RECURSIVE NFC(_)
NFC(s) ==
    IF Len(s) = 0 THEN ""
    ELSE IF Len(s) >= 2 /\ SubSeq(s, 1, 2) = "o^"
         THEN "@" \o NFC(SubSeq(s, 3, Len(s)))
    ELSE IF Len(s) >= 2 /\ SubSeq(s, 1, 2) = "O^"
         THEN "%" \o NFC(SubSeq(s, 3, Len(s)))
    ELSE IF Len(s) >= 2 /\ SubSeq(s, 1, 2) = "j~"
         THEN "&" \o NFC(SubSeq(s, 3, Len(s)))
    ELSE CharAt(s, 1) \o NFC(SubSeq(s, 2, Len(s)))

\* "".join(c for c in t if not unicodedata.combining(c))
RECURSIVE StripCombining(_)
StripCombining(s) ==
    IF Len(s) = 0 THEN ""
    ELSE (IF IsCombining(CharAt(s, 1)) THEN "" ELSE CharAt(s, 1))
         \o StripCombining(SubSeq(s, 2, Len(s)))

\* strip that leaves the text as it is
strip_nothing(s) == s

\* str.strip()
RECURSIVE strip(_)
strip(s) ==
    IF Len(s) = 0 THEN ""
    ELSE IF IsSpace(CharAt(s, 1)) THEN strip(SubSeq(s, 2, Len(s)))
    ELSE IF IsSpace(CharAt(s, Len(s))) THEN strip(SubSeq(s, 1, Len(s) - 1))
    ELSE s

\* re.sub(r"\s+", " ", text)
RECURSIVE CollapseSpaces(_)
CollapseSpaces(s) ==
    IF Len(s) = 0 THEN ""
    ELSE IF IsSpace(CharAt(s, 1))
         THEN IF Len(s) >= 2 /\ IsSpace(CharAt(s, 2))
              THEN CollapseSpaces(SubSeq(s, 2, Len(s)))
              ELSE " " \o CollapseSpaces(SubSeq(s, 2, Len(s)))
    ELSE CharAt(s, 1) \o CollapseSpaces(SubSeq(s, 2, Len(s)))

normalize_for_embed(text) ==
    IF text = "" THEN ""
    ELSE strip(CollapseSpaces(lower(NFC(text))))

normalize_for_match(text) == lower(StripCombining(NFKD(text)))

(***************************************************************************)
(* Out-of-domain guardrail                                                 *)
(***************************************************************************)
\* OOD_EXTRA environment variable: unset by default
OOD_EXTRA == {}

\* Labels are written without diacritics ("xe co" is the vehicles label).
ood_groups ==
    << [label |-> "xe co",
        keywords |-> {"oto", "o to", "xe hoi", "xe may", "xe may dien", "motor",
                      "motorbike", "xe mo to", "scooter", "xe tay ga", "xe so",
                      "xe tai", "truck", "bus", "xe khach", "xe dap", "bicycle",
                      "car", "vehicle"} \cup OOD_EXTRA],
       [label |-> "bat dong san",
        keywords |-> {"bat dong san", "nha dat", "can ho", "chung cu",
                      "biet thu", "dat nen"}],
       [label |-> "thoi trang",
        keywords |-> {"quan ao", "thoi trang", "giay dep", "giay sneaker",
                      "ao", "quan", "vay", "tui xach"}] >>

None == "None"

\* Guardrail that consults the first group only
is_out_of_domain_first_group(query) ==
    IF has_any(normalize_for_match(query), ood_groups[1].keywords)
    THEN ood_groups[1].label ELSE None

\* Returns the label of the first matching group, else None
is_out_of_domain(query) ==
    LET q == normalize_for_match(query)
        hit == {g \in 1..Len(ood_groups) : has_any(q, ood_groups[g].keywords)}
    IN  IF hit = {} THEN None
        ELSE ood_groups[CHOOSE g \in hit : \A h \in hit : g <= h].label

(***************************************************************************)
(* Intent classifier                                                       *)
(***************************************************************************)
intent_rules ==
    << [intent |-> "GAMING",
        keywords |-> {"game", "gaming", "choi game", "do hoa", "nang", "lol",
                      "pubg", "valorant", "gta", "render", "fps", "rtx", "gtx"}],
       [intent |-> "OFFICE",
        keywords |-> {"van phong", "mong nhe", "sinh vien", "nhe", "di dong",
                      "word", "excel", "office"}],
       [intent |-> "PHONE",
        keywords |-> {"dien thoai", "smartphone", "phone", "mobile", "android",
                      "ios", "iphone", "samsung", "galaxy", "pixel", "oppo",
                      "xiaomi", "realme", "vivo", "nokia", "chup anh", "selfie"}],
       [intent |-> "TABLET",
        keywords |-> {"may tinh bang", "tablet", "ipad", "tab"}],
       [intent |-> "ACCESSORY",
        keywords |-> {"phu kien", "accessory", "tai nghe", "headphone",
                      "earbuds", "loa", "ban phim", "keyboard", "sac", "charger",
                      "cap", "cable", "chuot", "mouse", "pin du phong",
                      "power bank"}],
       [intent |-> "LAPTOP",
        keywords |-> {"laptop", "may tinh xach tay", "notebook", "ultrabook",
                      "macbook", "dell", "asus", "lenovo", "hp", "msi", "acer"}],
       [intent |-> "CAMERA",
        keywords |-> {"camera", "chup anh", "zoom", "camera truoc", "camera sau"}],
       [intent |-> "BATTERY",
        keywords |-> {"pin", "mah", "thoi luong pin", "pin khoe"}],
       [intent |-> "DISPLAY",
        keywords |-> {"man hinh", "screen", "do phan giai", "oled", "lcd",
                      "amoled"}],
       [intent |-> "STORAGE",
        keywords |-> {"ocung", "ssd", "hdd", "gb", "tb", "bo nho"}],
       [intent |-> "BUSINESS",
        keywords |-> {"doanh nghiep", "business", "quan li", "server"}] >>

\* Classifier whose default is the broad laptop intent
detect_intent_default_laptop(query) ==
    LET q == normalize_for_match(query)
        hit == {r \in 1..Len(intent_rules) : has_any(q, intent_rules[r].keywords)}
    IN  IF hit = {} THEN "LAPTOP"
        ELSE intent_rules[CHOOSE r \in hit : \A h \in hit : r <= h].intent

\* Classifier in which the last matching rule wins
detect_intent_last_rule(query) ==
    LET q == normalize_for_match(query)
        hit == {r \in 1..Len(intent_rules) : has_any(q, intent_rules[r].keywords)}
    IN  IF hit = {} THEN "GENERAL"
        ELSE intent_rules[CHOOSE r \in hit : \A h \in hit : r >= h].intent

detect_intent(query) ==
    LET q == normalize_for_match(query)
        hit == {r \in 1..Len(intent_rules) : has_any(q, intent_rules[r].keywords)}
    IN  IF hit = {} THEN "GENERAL"
        ELSE intent_rules[CHOOSE r \in hit : \A h \in hit : r <= h].intent

(***************************************************************************)
(* Regular-expression helpers used by the filters                          *)
(***************************************************************************)
StartsAt(s, i, k) ==
    /\ i >= 1
    /\ i + Len(k) - 1 <= Len(s)
    /\ SubSeq(s, i, i + Len(k) - 1) = k

\* regex \b between positions i-1 and i
WordBoundary(s, i) ==
    (i > 1 /\ i - 1 <= Len(s) /\ IsWord(CharAt(s, i - 1)))
        # (i >= 1 /\ i <= Len(s) /\ IsWord(CharAt(s, i)))

DigitsRun(s, i, n) ==
    \A j \in i..(i + n - 1) : j <= Len(s) /\ IsDigit(CharAt(s, j))

\* re.search(r"\b\d{lo,hi}\s?<unit>\b", s) is not None
UnitPattern(s, lo, hi, unit) ==
    \E i \in 1..Len(s) : \E n \in lo..hi : \E sp \in {0, 1} :
        /\ WordBoundary(s, i)
        /\ DigitsRun(s, i, n)
        /\ sp = 1 => (i + n <= Len(s) /\ IsSpace(CharAt(s, i + n)))
        /\ StartsAt(s, i + n + sp, unit)
        /\ WordBoundary(s, i + n + sp + Len(unit))

\* first index >= i whose character is a digit (Len(s)+1 when none): \D*
RECURSIVE SkipNonDigits(_, _)
SkipNonDigits(s, i) ==
    IF i > Len(s) \/ IsDigit(CharAt(s, i)) THEN i ELSE SkipNonDigits(s, i + 1)

\* first index >= i whose character is not a digit: \d*
RECURSIVE SkipDigits(_, _)
SkipDigits(s, i) ==
    IF i > Len(s) \/ ~IsDigit(CharAt(s, i)) THEN i ELSE SkipDigits(s, i + 1)

\* first index >= i whose character is not white space: \s*
RECURSIVE SkipSpaces(_, _)
SkipSpaces(s, i) ==
    IF i > Len(s) \/ ~IsSpace(CharAt(s, i)) THEN i ELSE SkipSpaces(s, i + 1)

DigitValue(c) == (CHOOSE i \in 1..Len(DIGITS) : CharAt(DIGITS, i) = c) - 1

\* int() of a run of digits
RECURSIVE ParseInt(_)
ParseInt(s) ==
    IF Len(s) = 0 THEN 0
    ELSE 10 * ParseInt(SubSeq(s, 1, Len(s) - 1)) + DigitValue(CharAt(s, Len(s)))

\* Attempt of r"weight\D*(\d+\.?\d*)\s*kg" with "weight" at position p.
\* Result: <<matched, integer part of group(1)>>
WeightMatchAt(s, p) ==
    LET d  == SkipNonDigits(s, p + 6)
        e  == SkipDigits(s, d)
        f  == IF e <= Len(s) /\ CharAt(s, e) = "." THEN SkipDigits(s, e + 1) ELSE e
        g  == SkipSpaces(s, f)
    IN  IF StartsAt(s, p, "weight") /\ d <= Len(s) /\ StartsAt(s, g, "kg")
        THEN <<TRUE, ParseInt(SubSeq(s, d, e - 1))>>
        ELSE <<FALSE, 0>>

\* re.search(r"weight\D*(\d+\.?\d*)\s*kg", s): leftmost successful attempt
WeightSearch(s) ==
    LET ok == {p \in 1..Len(s) : WeightMatchAt(s, p)[1]}
    IN  IF ok = {} THEN <<FALSE, 0>>
        ELSE WeightMatchAt(s, CHOOSE p \in ok : \A o \in ok : p <= o)

(***************************************************************************)
(* The vector store's documents (metadata written by the indexing job)     *)
(***************************************************************************)
\* None: the metadata lacks the field
Catalogue ==
    [ c1 |-> [product_id |-> 1, name |-> "Asus ROG Strix G16",
              category_name |-> "Laptop",
              spec_text |-> "Core i7 RTX 4060 16GB RAM Weight: 2.5 kg",
              document |-> "Laptop gaming Asus ROG Strix",
              price |-> 35990000, usp |-> "RTX 4060"],
      c2 |-> [product_id |-> 2, name |-> "Chuot Gaming Legion M300",
              category_name |-> "Phu kien",
              spec_text |-> "8000 DPI RGB",
              document |-> "Chuot choi game",
              price |-> 490000, usp |-> None],
      c3 |-> [product_id |-> 3, name |-> "Dell XPS 13",
              category_name |-> "Laptop",
              spec_text |-> "Core i5 Iris Xe 8GB RAM Weight: 1.2 kg",
              document |-> "Ultrabook mong nhe",
              price |-> 0, usp |-> "Mong nhe"],
      c4 |-> [product_id |-> 4, name |-> "iPhone 15",
              category_name |-> "Dien thoai",
              spec_text |-> "5G 3349 mAh 48MP",
              document |-> "",
              price |-> 22990000, usp |-> None],
      c5 |-> [product_id |-> 2, name |-> "Chuot Gaming Legion M300",
              category_name |-> "Phu kien",
              spec_text |-> "8000 DPI RGB",
              document |-> "Bao hanh 12 thang",
              price |-> 490000, usp |-> None],
      c6 |-> [product_id |-> 6, name |-> "Lenovo Tab M10",
              category_name |-> "May tinh bang",
              spec_text |-> "Android 13 LTE 5100 mAh",
              document |-> "May tinh bang hoc tap",
              price |-> 4990000, usp |-> None],
      c7 |-> [product_id |-> 7, name |-> "Op lung iPhone 15",
              category_name |-> "Phu kien",
              spec_text |-> "Silicone",
              document |-> "Op lung chong soc",
              price |-> 190000, usp |-> None],
      c8 |-> [product_id |-> 8, name |-> "Bo phat wifi 4G",
              category_name |-> "Thiet bi mang",
              spec_text |-> "LTE 3000 mAh",
              document |-> "Bo phat wifi di dong",
              price |-> 1290000, usp |-> None],
      c9 |-> [product_id |-> 9, name |-> "HP Pavilion 15",
              category_name |-> "Laptop",
              spec_text |-> "Core i5 8GB RAM 15.6 inch",
              document |-> "Laptop hoc tap",
              price |-> 15990000, usp |-> None],
      c10 |-> [product_id |-> 10, name |-> "Acer Aspire 7 Gaming",
               category_name |-> "May tinh xach tay",
               spec_text |-> "Ryzen 5 16GB RAM",
               document |-> "May tinh xach tay choi game",
               price |-> 17990000, usp |-> None],
      c11 |-> [product_id |-> 11, name |-> None,
               category_name |-> "Phu kien",
               spec_text |-> "",
               document |-> "",
               price |-> 0, usp |-> None],
      c12 |-> [product_id |-> 12, name |-> "%ppo Reno",
               category_name |-> "Thiet bi",
               spec_text |-> "5G 64MP",
               document |-> "May moi",
               price |-> 8990000, usp |-> None] ]

Ids == DOMAIN Catalogue

\* The documents the modelled stores are filled from
StoreIds == {"c1", "c2", "c3", "c4", "c5"}

\* Python `x or ""`
OrEmpty(x) == IF x = None THEN "" ELSE x

LaptopClass == {"laptop", "may tinh xach tay", "notebook", "ultrabook", "macbook"}
PhoneCategories == {"dien thoai", "smartphone", "phone", "mobile"}
PhoneBrands == {"iphone", "samsung", "galaxy", "pixel", "oppo", "xiaomi", "vivo",
                "realme", "nokia"}
PhoneSignals == {"sim", "lte", "5g", "gsm"}
DiscreteGpu == {"rtx", "gtx", "radeon", "geforce", "nvidia", "amd rx", "discrete"}
GamingBrands == {"legion", "strix", "tuf gaming", "nitro", "omen", "predator", "aorus"}

\* is_valid whose PHONE rule takes the brand cue from the name alone
is_valid_brand_in_name(r, intent) ==
    LET spec_text == normalize_for_match(OrEmpty(Catalogue[r.id].spec_text))
        cat_name  == normalize_for_match(OrEmpty(Catalogue[r.id].category_name))
        name      == normalize_for_match(OrEmpty(Catalogue[r.id].name))
        cat_ok    == has_any(cat_name, PhoneCategories)
        brand_ok  == has_any(name, PhoneBrands)
        signal_ok == \/ has_any(spec_text, PhoneSignals)
                     \/ UnitPattern(spec_text, 4, 6, "mah")
                     \/ UnitPattern(spec_text, 1, 3, "mp")
    IN  IF intent = "PHONE" THEN cat_ok \/ (brand_ok /\ signal_ok) ELSE TRUE

\* is_valid whose OFFICE rule leaves the weight out
is_valid_office_any_weight(r, intent) ==
    LET spec_text == normalize_for_match(OrEmpty(Catalogue[r.id].spec_text))
        cat_name  == normalize_for_match(OrEmpty(Catalogue[r.id].category_name))
        name      == normalize_for_match(OrEmpty(Catalogue[r.id].name))
        cat_ok    == has_any(cat_name, PhoneCategories)
        brand_ok  == has_any(name, PhoneBrands) \/ has_any(spec_text, {"android", "ios"})
        signal_ok == \/ has_any(spec_text, PhoneSignals)
                     \/ UnitPattern(spec_text, 4, 6, "mah")
                     \/ UnitPattern(spec_text, 1, 3, "mp")
        has_discrete == has_any(spec_text, DiscreteGpu)
        gaming_name  == Contains(name, "gaming") \/ has_any(name, GamingBrands)
    IN  CASE intent = "PHONE" -> cat_ok \/ (brand_ok /\ signal_ok)
          [] intent = "TABLET" ->
                has_any(cat_name, {"may tinh bang", "tablet", "ipad", "tab"})
          [] intent = "ACCESSORY" ->
                has_any(cat_name, {"phu kien", "accessory", "chuot", "mouse",
                                   "tai nghe", "ban phim", "loa"})
          [] intent = "LAPTOP" -> has_any(cat_name, LaptopClass)
          [] intent = "GAMING" ->
                has_any(cat_name, LaptopClass) /\ (has_discrete \/ gaming_name)
          [] intent = "OFFICE" ->
                /\ has_any(cat_name, LaptopClass)
                /\ ~(Contains(name, "gaming") \/ Contains(cat_name, "gaming"))
          [] OTHER -> TRUE

\* The per-candidate body of filter_results: is_valid for result r
is_valid(r, intent) ==
    LET spec_text == normalize_for_match(OrEmpty(Catalogue[r.id].spec_text))
        cat_name  == normalize_for_match(OrEmpty(Catalogue[r.id].category_name))
        name      == normalize_for_match(OrEmpty(Catalogue[r.id].name))
        cat_ok    == has_any(cat_name, PhoneCategories)
        brand_ok  == has_any(name, PhoneBrands) \/ has_any(spec_text, {"android", "ios"})
        signal_ok == \/ has_any(spec_text, PhoneSignals)
                     \/ UnitPattern(spec_text, 4, 6, "mah")
                     \/ UnitPattern(spec_text, 1, 3, "mp")
        has_discrete == has_any(spec_text, DiscreteGpu)
        gaming_name  == Contains(name, "gaming") \/ has_any(name, GamingBrands)
        match == WeightSearch(spec_text)
    IN  CASE intent = "PHONE" -> cat_ok \/ (brand_ok /\ signal_ok)
          [] intent = "TABLET" ->
                has_any(cat_name, {"may tinh bang", "tablet", "ipad", "tab"})
          [] intent = "ACCESSORY" ->
                has_any(cat_name, {"phu kien", "accessory", "chuot", "mouse",
                                   "tai nghe", "ban phim", "loa"})
          [] intent = "LAPTOP" -> has_any(cat_name, LaptopClass)
          [] intent = "GAMING" ->
                has_any(cat_name, LaptopClass) /\ (has_discrete \/ gaming_name)
          [] intent = "OFFICE" ->
                /\ has_any(cat_name, LaptopClass)
                /\ ~(Contains(name, "gaming") \/ Contains(cat_name, "gaming"))
                /\ ~(match[1] /\ match[2] >= 2)
          [] OTHER -> TRUE

Intents == {"GENERAL", "GAMING", "OFFICE", "PHONE", "TABLET", "ACCESSORY",
            "LAPTOP", "CAMERA", "BATTERY", "DISPLAY", "STORAGE", "BUSINESS"}

\* is_valid for every document and intent, computed once
IsValid == [i \in Ids, t \in Intents |-> is_valid([id |-> i], t)]

\* Filter that hands back the survivors last first
filter_results_reversed(query, results, intent) ==
    LET keep(r) == IsValid[r.id, intent]
        kept == SelectSeq(results, keep)
    IN  [i \in 1..Len(kept) |-> kept[Len(kept) + 1 - i]]

filter_results(query, results, intent) ==
    LET keep(r) == IsValid[r.id, intent]
    IN  SelectSeq(results, keep)

(***************************************************************************)
(* Answer composer (response_templates.py)                                 *)
(***************************************************************************)
Leftmost(S) == CHOOSE p \in S : \A o \in S : p <= o

\* str() of a natural number
RECURSIVE ToStr(_)
ToStr(n) ==
    IF n < 10 THEN CharAt(DIGITS, n + 1)
    ELSE ToStr(n \div 10) \o CharAt(DIGITS, (n % 10) + 1)

\* f"{n:,.0f}" : digits in groups of three
RECURSIVE Grouped(_)
Grouped(n) ==
    IF n < 1000 THEN ToStr(n)
    ELSE Grouped(n \div 1000) \o ","
         \o CharAt(DIGITS, ((n \div 100) % 10) + 1)
         \o CharAt(DIGITS, ((n \div 10) % 10) + 1)
         \o CharAt(DIGITS, (n % 10) + 1)

\* An absent price (None) is written 0: the code only tests `not amount`.
format_currency(amount) ==
    IF amount = 0 THEN "Lien he de biet gia"
    ELSE Grouped(amount) \o " VND"

IsAsciiAlnumHyphen(c) ==
    \/ IsDigit(c)
    \/ \E i \in 1..26 : CharAt(LOWER, i) = c \/ CharAt(UPPER, i) = c
    \/ c = "-"

RECURSIVE SkipAlnumHyphen(_, _)
SkipAlnumHyphen(s, i) ==
    IF i > Len(s) \/ ~IsAsciiAlnumHyphen(CharAt(s, i)) THEN i
    ELSE SkipAlnumHyphen(s, i + 1)

RECURSIVE SkipWord(_, _)
SkipWord(s, i) ==
    IF i > Len(s) \/ ~IsWord(CharAt(s, i)) THEN i ELSE SkipWord(s, i + 1)

DigitAt(s, i) == i >= 1 /\ i <= Len(s) /\ IsDigit(CharAt(s, i))

\* End (exclusive) of the processor pattern matched at p in the lower-cased
\* text l, 0 when it does not match there.
CpuEndAt(l, p) ==
    LET core  == SkipSpaces(l, p + 4)
        ryzen == SkipSpaces(l, p + 5)
        md    == SkipDigits(l, p + 1)
        suf   == SkipSpaces(l, md)
        apple == SkipSpaces(l, p + 5)
    IN  IF StartsAt(l, p, "core") /\ StartsAt(l, core, "i") /\ DigitAt(l, core + 1)
        THEN SkipAlnumHyphen(l, core + 1)
        ELSE IF StartsAt(l, p, "ryzen") /\ DigitAt(l, ryzen)
        THEN SkipAlnumHyphen(l, ryzen)
        ELSE IF StartsAt(l, p, "m") /\ DigitAt(l, p + 1)
        THEN (IF StartsAt(l, suf, "pro") \/ StartsAt(l, suf, "max")
              THEN suf + 3 ELSE md)
        ELSE IF StartsAt(l, p, "apple") /\ StartsAt(l, apple, "m")
                /\ DigitAt(l, apple + 1)
        THEN SkipDigits(l, apple + 1)
        ELSE 0

\* End (exclusive) of the graphics pattern matched at p, 0 when no match.
GpuEndAt(l, p) ==
    LET x3  == SkipSpaces(l, p + 3)
        rad == SkipSpaces(l, p + 6)
        rx  == SkipSpaces(l, rad + 2)
        int == SkipSpaces(l, p + 5)
        iri == SkipSpaces(l, p + 4)
    IN  IF StartsAt(l, p, "rtx") /\ DigitAt(l, x3) THEN SkipWord(l, x3)
        ELSE IF StartsAt(l, p, "gtx") /\ DigitAt(l, x3) THEN SkipDigits(l, x3)
        ELSE IF StartsAt(l, p, "radeon") /\ StartsAt(l, rad, "rx") /\ DigitAt(l, rx)
        THEN SkipWord(l, rx)
        ELSE IF StartsAt(l, p, "intel") /\ StartsAt(l, int, "iris") THEN int + 4
        ELSE IF StartsAt(l, p, "iris") /\ StartsAt(l, iri, "xe") THEN iri + 2
        ELSE 0

\* (\d+\s?GB) at p : end (exclusive) of the group, 0 when no match;
\* unit is "gb" or "tb"
SizeEndAt(l, p, unit) ==
    LET e == SkipDigits(l, p)
    IN  IF ~DigitAt(l, p) THEN 0
        ELSE IF StartsAt(l, e, unit) THEN e + 2
        ELSE IF e <= Len(l) /\ IsSpace(CharAt(l, e)) /\ StartsAt(l, e + 1, unit)
        THEN e + 3
        ELSE 0

\* First match of a pattern given by its end function, as text of s
FirstMatch(s, EndAt(_, _)) ==
    LET l  == lower(s)
        ok == {p \in 1..Len(l) : EndAt(l, p) > 0}
    IN  IF ok = {} THEN None
        ELSE SubSeq(s, Leftmost(ok), EndAt(l, Leftmost(ok)) - 1)

RamEndAt(l, p) ==
    LET e == SizeEndAt(l, p, "gb")
    IN  IF e > 0 /\ StartsAt(l, SkipSpaces(l, e), "ram") THEN e ELSE 0

RamBoundaryEndAt(l, p) ==
    LET e == SizeEndAt(l, p, "gb")
    IN  IF e > 0 /\ WordBoundary(l, e) THEN e ELSE 0

StorageEndAt(l, p) ==
    LET g == SizeEndAt(l, p, "gb")
        e == IF g > 0 THEN g ELSE SizeEndAt(l, p, "tb")
        t == SkipSpaces(l, e)
    IN  IF e = 0 THEN 0
        ELSE IF StartsAt(l, t, "ssd") \/ StartsAt(l, t, "hdd") THEN t + 3
        ELSE IF StartsAt(l, t, "nvme") THEN t + 4
        ELSE t

\* (\d{3,5})\s?mAh at p : number of digits taken (greedy), 0 when no match
BatteryDigitsAt(l, p) ==
    LET fits(n) == /\ DigitsRun(l, p, n)
                   /\ \/ StartsAt(l, p + n, "mah")
                      \/ (p + n <= Len(l) /\ IsSpace(CharAt(l, p + n))
                          /\ StartsAt(l, p + n + 1, "mah"))
    IN  IF fits(5) THEN 5 ELSE IF fits(4) THEN 4 ELSE IF fits(3) THEN 3 ELSE 0

\* (\d+\.?\d*)\s?kg at p : end (exclusive) of group 1, 0 when no match
WeightEndAt(l, p) ==
    LET e == SkipDigits(l, p)
        f == IF e <= Len(l) /\ CharAt(l, e) = "." THEN SkipDigits(l, e + 1) ELSE e
    IN  IF ~DigitAt(l, p) THEN 0
        ELSE IF StartsAt(l, f, "kg") THEN f
        ELSE IF f <= Len(l) /\ IsSpace(CharAt(l, f)) /\ StartsAt(l, f + 1, "kg")
        THEN f
        ELSE 0

\* (\d{2}(?:\.\d)?)-?inch|(\d{2}(?:\.\d)?)\s?inch at p : end of the group
ScreenEndAt(l, p) ==
    LET e == IF DigitsRun(l, p, 2)
             THEN (IF StartsAt(l, p + 2, ".") /\ DigitAt(l, p + 3)
                   THEN p + 4 ELSE p + 2)
             ELSE 0
    IN  IF e = 0 THEN 0
        ELSE IF StartsAt(l, e, "inch") \/ StartsAt(l, e, "-inch")
                \/ StartsAt(l, e, " inch")
        THEN e
        ELSE 0

extract_specs(spec_text) ==
    LET s   == spec_text
        l   == lower(s)
        cpu == FirstMatch(s, CpuEndAt)
        gpu == FirstMatch(s, GpuEndAt)
        ram == IF FirstMatch(s, RamEndAt) # None THEN FirstMatch(s, RamEndAt)
               ELSE FirstMatch(s, RamBoundaryEndAt)
        bat == {p \in 1..Len(l) : BatteryDigitsAt(l, p) > 0}
        wgt == FirstMatch(s, WeightEndAt)
        scr == FirstMatch(s, ScreenEndAt)
    IN  IF s = ""
        THEN [cpu |-> "CPU hieu nang cao", gpu |-> "Card do hoa roi", ram |-> None,
              storage |-> None, battery |-> None, weight |-> None, screen |-> None]
        ELSE [cpu |-> IF cpu # None THEN cpu ELSE "CPU hieu nang cao",
              gpu |-> IF gpu # None THEN gpu ELSE "Card do hoa roi",
              ram |-> ram,
              storage |-> FirstMatch(s, StorageEndAt),
              battery |-> IF bat = {} THEN None
                          ELSE SubSeq(s, Leftmost(bat),
                                      Leftmost(bat) + BatteryDigitsAt(l, Leftmost(bat)) - 1)
                               \o " mAh",
              weight |-> IF wgt = None THEN None ELSE wgt \o " kg",
              screen |-> IF scr = None THEN None ELSE scr \o " inch"]

\* extract_specs of every document's spec text, computed once
Specs == [i \in Ids |-> extract_specs(OrEmpty(Catalogue[i].spec_text))]

\* Python `x or default` for optional text
OrElse(x, default) == IF x = None \/ x = "" THEN default ELSE x

Min(a, b) == IF a <= b THEN a ELSE b
Max(a, b) == IF a >= b THEN a ELSE b

\* ", ".join(names); a None among the names raises TypeError
RECURSIVE Join(_)
Join(names) ==
    IF Len(names) = 0 THEN ""
    ELSE IF Len(names) = 1 THEN names[1]
    ELSE names[1] \o ", " \o Join(Tail(names))

TypeError == "TypeError"

\* The sentence chosen by intent and verbosity for the best result
answer_body(intent, verbose, product_line, price_line, specs) ==
    CASE intent = "GAMING" ->
            IF verbose
            THEN "Da, em de xuat " \o product_line \o ". Cau hinh co "
                 \o specs.cpu \o ", " \o specs.gpu \o ". " \o price_line
                 \o ". Chi tiet: RAM " \o OrElse(specs.ram, "N/A")
                 \o ", Storage " \o OrElse(specs.storage, "N/A") \o "."
            ELSE "Da, " \o product_line \o " phu hop cho choi game. "
                 \o price_line \o "."
      [] intent = "OFFICE" ->
            IF verbose
            THEN "Da, " \o product_line
                 \o " phu hop cho cong viec van phong: trong luong "
                 \o OrElse(specs.weight, "nhe") \o ", man hinh "
                 \o OrElse(specs.screen, "kich thuoc phu hop") \o ". "
                 \o price_line \o "."
            ELSE "Da, " \o product_line \o " phu hop cho van phong. "
                 \o price_line \o "."
      [] intent = "CAMERA" ->
            "Da, " \o product_line \o " co thong so camera tot. "
            \o price_line \o "."
      [] intent = "BATTERY" ->
            "Da, " \o product_line \o " co pin khoang "
            \o OrElse(specs.battery, "khong ro") \o ". " \o price_line \o "."
      [] OTHER ->
            IF verbose
            THEN "Da, em thay " \o product_line \o ". " \o price_line
                 \o ". Thong so chinh: CPU " \o specs.cpu \o ", RAM "
                 \o OrElse(specs.ram, "N/A") \o ", Storage "
                 \o OrElse(specs.storage, "N/A") \o "."
            ELSE "Da, " \o product_line \o " la lua chon phu hop. "
                 \o price_line \o "."

\* f"Gia: {price_str}" if best.price else "Gia: Lien he"
price_line_of(price) ==
    IF price # 0 THEN "Gia: " \o format_currency(price) ELSE "Gia: Lien he"

\* The unique-selling-point sentence, added to short answers only
usp_part(best, verbose) ==
    IF ~verbose /\ OrEmpty(best.usp) # ""
    THEN " Diem noi bat: " \o best.usp \o "." ELSE ""

\* names: the names of results[1:3]
others_part(results, names) ==
    IF Len(results) > 1 THEN " Ngoai ra co: " \o Join(names) \o "." ELSE ""

\* Follow-up question added to every answer
followup_part_always(verbose) ==
    " Anh/chi co muon xem chi tiet thong so khong a?"

followup_part(verbose) ==
    IF ~verbose THEN " Anh/chi co muon xem chi tiet thong so khong a?" ELSE ""

\* The answer for a non-empty result list; best is results[0]
answer_for(results, intent, verbose, best, names) ==
    IF Len(results) > 1 /\ \E i \in 1..Len(names) : names[i] = None
    THEN TypeError
    ELSE answer_body(intent, verbose, best.name, price_line_of(best.price),
                     Specs[results[1].id])
         \o usp_part(best, verbose) \o others_part(results, names)
         \o followup_part(verbose)

\* results: non-empty or empty sequence of search results.  The value is
\* the answer text, or TypeError when composing the alternates list raises.
generate_answer_lite(results, intent, verbose) ==
    IF results = <<>>
    THEN IF intent # "GENERAL"
         THEN "Da, em rat tiec nhung hien tai em khong tim thay san pham nao thuoc nhom "
              \o lower(intent) \o " phu hop voi yeu cau cua anh/chi a."
         ELSE "Da, em rat tiec nhung hien tai em khong tim thay san pham nao phu hop voi yeu cau cua anh/chi a."
    ELSE answer_for(results, intent, verbose, Catalogue[results[1].id],
                    [i \in 1..(Min(3, Len(results)) - 1) |->
                        Catalogue[results[i + 1].id].name])

(***************************************************************************)
(* Service state                                                           *)
(***************************************************************************)
VARIABLES
    embedder,        \* backend selected by QueryEmbedder() at import
    ENABLE_RERANK,   \* environment flag read at import
    RERANK_POOL,     \* environment integer read at import
    cross_encoder,   \* TRUE when the cross-encoder was loaded at startup
    collection,      \* the store's documents, nearest first
    req,             \* the request handled last
    resp,            \* its response
    search_res,      \* results of the Search run for it (the pool, for Chat)
    calls,           \* backend calls made while handling it
    inflight         \* per worker thread: the request it is handling and
                     \* the handler's position and locals (concurrent runs)

vars == <<embedder, ENABLE_RERANK, RERANK_POOL, cross_encoder, collection,
          req, resp, search_res, calls, inflight>>

\* Bounds of the request schemas
SEARCH_TOP_K_MIN == 1
SEARCH_TOP_K_MAX == 20
CHAT_TOP_K_MIN == 1
CHAT_TOP_K_MAX == 10
MIN_POOL == 20
AUTO_POOL_CAP == 50

\* Bounds of the model
MaxStore == 2

\* Inputs explored
RerankPoolValues == {0, 1, 60}
ScoreValues == {-2, 1}
SearchTopKs == {1, 2, 3, 4, 20, 21}
ChatTopKs == {1, 2, 3, 4, 5, 6, 10, 11}
Queries == {"", "  ", "@ t@ gaming", "quan ao", "laptop choi game", "iphone",
            "laptop van phong", "laptop", "tivi"}

\* Sequences of pairwise distinct document ids (the store's ids are unique)
RECURSIVE DistinctSeqs(_)
DistinctSeqs(n) ==
    IF n = 0 THEN {<<>>}
    ELSE LET shorter == DistinctSeqs(n - 1)
         IN  shorter \cup
             {Append(p[1], p[2]) :
                 p \in {x \in shorter \X StoreIds :
                           /\ Len(x[1]) = n - 1
                           /\ \A k \in 1..Len(x[1]) : x[1][k] # x[2]}}

(***************************************************************************)
(* Request schemas (pydantic validation)                                   *)
(***************************************************************************)
SearchRequestValid(query, top_k) ==
    Len(query) >= 1 /\ top_k >= SEARCH_TOP_K_MIN /\ top_k <= SEARCH_TOP_K_MAX

ChatRequestValid(query, top_k) ==
    Len(query) >= 1 /\ top_k >= CHAT_TOP_K_MIN /\ top_k <= CHAT_TOP_K_MAX

\* Triggers spelt with letters outside the modelled alphabet are left out:
\* no modelled query contains them.
detect_verbose(query) ==
    has_any(lower(query), {"chi tiet", "thong so", "cau hinh", "detail", "spec",
                           "mo ta"})

\* Every keyword of detect_intent's rule lists
IntentKeywords == UNION {intent_rules[r].keywords : r \in 1..Len(intent_rules)}

\* What the handlers derive from the query text alone, computed once
QueryFacts ==
    [q \in Queries \cup IntentKeywords |->
        [stripped   |-> strip(q),
         embed_text |-> normalize_for_embed(strip(q)),
         ood        |-> is_out_of_domain(q),
         intent     |-> detect_intent(q),
         verbose    |-> detect_verbose(q)]]

(***************************************************************************)
(* Search                                                                  *)
(***************************************************************************)
\* rerank_error: the "Rerank error" line was logged
NoCalls == [embed |-> 0, store |-> 0, rerank |-> 0, rerank_error |-> FALSE,
            n_results |-> 0, embed_text |-> ""]

\* Slice that keeps the whole list
Truncate_nothing(rs, top_k) == rs

\* rs[:top_k]
Truncate(rs, top_k) == SubSeq(rs, 1, Min(top_k, Len(rs)))

\* Pool that is always the automatic one
pool_size_always_auto(top_k) == Min(top_k * 2, AUTO_POOL_CAP)

\* Pool held to the ceiling of the automatic size
pool_size_capped(top_k) ==
    IF ENABLE_RERANK
    THEN Min(IF RERANK_POOL > 0 THEN RERANK_POOL ELSE top_k * 2, AUTO_POOL_CAP)
    ELSE top_k

\* Number of candidates requested from the store
pool_size(top_k) ==
    IF ENABLE_RERANK
    THEN (IF RERANK_POOL > 0 THEN RERANK_POOL ELSE Min(top_k * 2, AUTO_POOL_CAP))
    ELSE top_k

\* _collection.query(n_results = n): the n nearest documents, nearest first
StoreQuery(n) ==
    [i \in 1..Min(n, Len(collection)) |->
        [id |-> collection[i], cross_score |-> <<>>]]

\* Sort key of the rerank: cross_score, -1.0 when it is None
SortKey(r) == IF r.cross_score = <<>> THEN -1 ELSE r.cross_score[1]

\* Sort that puts a candidate ahead of those with an equal key
RECURSIVE SortByKeyDesc_ties_reversed(_)
SortByKeyDesc_ties_reversed(rs) ==
    IF Len(rs) <= 1 THEN rs
    ELSE LET done  == SortByKeyDesc_ties_reversed(SubSeq(rs, 1, Len(rs) - 1))
             x     == rs[Len(rs)]
             ahead == {k \in 0..Len(done) :
                          \A j \in 1..k : SortKey(done[j]) > SortKey(x)}
             at    == CHOOSE k \in ahead : \A o \in ahead : o <= k
         IN  SubSeq(done, 1, at) \o <<x>> \o SubSeq(done, at + 1, Len(done))

\* list.sort(key=..., reverse=True): descending and stable
RECURSIVE SortByKeyDesc(_)
SortByKeyDesc(rs) ==
    IF Len(rs) <= 1 THEN rs
    ELSE LET done  == SortByKeyDesc(SubSeq(rs, 1, Len(rs) - 1))
             x     == rs[Len(rs)]
             ahead == {k \in 0..Len(done) :
                          \A j \in 1..k : SortKey(done[j]) >= SortKey(x)}
             at    == CHOOSE k \in ahead : \A o \in ahead : o <= k
         IN  SubSeq(done, 1, at) \o <<x>> \o SubSeq(done, at + 1, Len(done))

\* Rerank block that loses the pool when predict() raises
Rerank_drop_on_error(interim, env) ==
    IF env.rerank_throws THEN <<>>
    ELSE SortByKeyDesc([i \in 1..Len(interim) |->
            [interim[i] EXCEPT !.cross_score = <<env.scores[interim[i].id]>>]])

\* The rerank block: env.rerank_throws is predict() raising,
\* env.scores the scores it returns otherwise.
Rerank(interim, env) ==
    IF env.rerank_throws THEN interim
    ELSE SortByKeyDesc([i \in 1..Len(interim) |->
            [interim[i] EXCEPT !.cross_score = <<env.scores[interim[i].id]>>]])

\* QueryEmbedder.__init__: st_loads is SentenceTransformer(EMBED_MODEL)
\* succeeding, openai_key is OPENAI_API_KEY being set (with chromadb's
\* embedding functions importable).  The constructor never raises.
QueryEmbedder(st_loads, openai_key) ==
    IF st_loads THEN "st" ELSE IF openai_key THEN "openai" ELSE "none"

EmbedderBackends == {QueryEmbedder(a, b) : a, b \in BOOLEAN}

\* QueryEmbedder.encode raises: RuntimeError when no backend was selected,
\* else whatever the backend raises during this request
encode_raises(env) == embedder = "none" \/ env.embed_fails

\* The rerank block runs when the flag is set, the model is loaded and
\* the pool is not empty
rerank_on(interim) == ENABLE_RERANK /\ cross_encoder /\ interim # <<>>

\* The handler from the stripped query on: q is query.strip(), embed_text
\* the text handed to the embedder, n the pool size, interim the store's
\* answer.
search_steps(top_k, env, q, embed_text, n, interim) ==
    IF q = ""
    THEN [status |-> 400, detail |-> "Empty query", results |-> <<>>,
          calls |-> NoCalls]
    ELSE IF encode_raises(env)
    THEN [status |-> 500, detail |-> "Embedding error", results |-> <<>>,
          calls |-> [NoCalls EXCEPT !.embed = 1, !.embed_text = embed_text]]
    ELSE IF env.store_fails
    THEN [status |-> 500, detail |-> "Vector DB error", results |-> <<>>,
          calls |-> [NoCalls EXCEPT !.embed = 1, !.embed_text = embed_text,
                                    !.store = 1, !.n_results = n]]
    ELSE [status |-> 200, detail |-> "",
          results |-> Truncate(IF rerank_on(interim) THEN Rerank(interim, env)
                               ELSE interim, top_k),
          calls |-> [embed |-> 1, store |-> 1,
                     rerank |-> IF rerank_on(interim) THEN 1 ELSE 0,
                     rerank_error |-> rerank_on(interim) /\ env.rerank_throws,
                     n_results |-> n, embed_text |-> embed_text]]

\* The /search handler.  env is the behaviour of the backends during this
\* request.  Result: the response and the backend calls made.
search(query, top_k, env) ==
    search_steps(top_k, env, QueryFacts[query].stripped,
                 QueryFacts[query].embed_text, pool_size(top_k),
                 StoreQuery(pool_size(top_k)))

(***************************************************************************)
(* Chat                                                                    *)
(***************************************************************************)
IdsOf(rs) == {rs[i].id : i \in 1..Len(rs)}

\* Phone heuristic that takes a brand token without a technical signal
is_phone_candidate_brand_only(n, c, s) ==
    LET nn == lower(n)
        cc == StripCombining(NFKD(lower(c)))
        ss == StripCombining(NFKD(lower(s)))
    IN  \/ has_any(cc, PhoneCategories)
        \/ has_any(nn, PhoneBrands)
        \/ has_any(ss, {"android", "ios"})

\* The relaxed predicate of the backfill for a pool entry
is_phone_candidate(n, c, s) ==
    LET nn == lower(n)
        cc == StripCombining(NFKD(lower(c)))
        ss == StripCombining(NFKD(lower(s)))
        cat_ok    == has_any(cc, PhoneCategories)
        brand_ok  == has_any(nn, PhoneBrands) \/ has_any(ss, {"android", "ios"})
        signal_ok == \/ has_any(ss, PhoneSignals)
                     \/ UnitPattern(ss, 4, 6, "mah")
                     \/ UnitPattern(ss, 1, 3, "mp")
    IN  cat_ok \/ (brand_ok /\ signal_ok)

\* Backfill predicate that accepts anything for an intent without a rule
relaxed_pred_other_intents(r, intent) ==
    LET name == OrEmpty(Catalogue[r.id].name)
        cat  == OrEmpty(Catalogue[r.id].category_name)
        spec == OrEmpty(Catalogue[r.id].spec_text)
    IN  CASE intent = "GAMING" ->
                has_any(lower(name), {"gaming", "legion", "strix", "nitro",
                                      "omen", "predator"})
          [] intent = "PHONE" -> is_phone_candidate(name, cat, spec)
          [] intent = "OFFICE" -> has_any(lower(cat), {"laptop", "ultrabook"})
          [] OTHER -> TRUE

\* Backfill predicate that accepts anything
relaxed_pred_anything(r, intent) == TRUE

\* pred(name, cat, spec) of the add_if call made for the intent;
\* FALSE for an intent for which add_if is not called
relaxed_pred(r, intent) ==
    LET name == OrEmpty(Catalogue[r.id].name)
        cat  == OrEmpty(Catalogue[r.id].category_name)
        spec == OrEmpty(Catalogue[r.id].spec_text)
    IN  CASE intent = "GAMING" ->
                has_any(lower(name), {"gaming", "legion", "strix", "nitro",
                                      "omen", "predator"})
          [] intent = "PHONE" -> is_phone_candidate(name, cat, spec)
          [] intent = "OFFICE" -> has_any(lower(cat), {"laptop", "ultrabook"})
          [] OTHER -> FALSE

\* relaxed_pred for every document and intent, computed once
Relaxed == [i \in Ids, t \in Intents |-> relaxed_pred([id |-> i], t)]

\* add_if without the seen_ids test
RECURSIVE add_if_no_seen(_, _, _, _, _)
add_if_no_seen(pool, i, final_results, needed, intent) ==
    IF i > Len(pool) \/ needed <= 0 THEN final_results
    ELSE IF Relaxed[pool[i].id, intent] THEN
        add_if_no_seen(pool, i + 1, Append(final_results, pool[i]), needed - 1, intent)
    ELSE add_if_no_seen(pool, i + 1, final_results, needed, intent)

\* add_if without the `needed` countdown
RECURSIVE add_if_no_limit(_, _, _, _, _)
add_if_no_limit(pool, i, final_results, needed, intent) ==
    IF i > Len(pool) THEN final_results
    ELSE IF pool[i].id \in IdsOf(final_results) THEN
        add_if_no_limit(pool, i + 1, final_results, needed, intent)
    ELSE IF Relaxed[pool[i].id, intent] THEN
        add_if_no_limit(pool, i + 1, Append(final_results, pool[i]), needed, intent)
    ELSE add_if_no_limit(pool, i + 1, final_results, needed, intent)

\* add_if that puts a backfilled candidate at the head of the list
RECURSIVE add_if_prepend(_, _, _, _, _)
add_if_prepend(pool, i, final_results, needed, intent) ==
    IF i > Len(pool) \/ needed <= 0 THEN final_results
    ELSE IF pool[i].id \in IdsOf(final_results) THEN
        add_if_prepend(pool, i + 1, final_results, needed, intent)
    ELSE IF Relaxed[pool[i].id, intent] THEN
        add_if_prepend(pool, i + 1, <<pool[i]>> \o final_results, needed - 1, intent)
    ELSE add_if_prepend(pool, i + 1, final_results, needed, intent)

\* add_if: walk the pool from position i, appending while needed > 0
RECURSIVE add_if(_, _, _, _, _)
add_if(pool, i, final_results, needed, intent) ==
    IF i > Len(pool) \/ needed <= 0 THEN final_results
    ELSE IF pool[i].id \in IdsOf(final_results) THEN
        add_if(pool, i + 1, final_results, needed, intent)
    ELSE IF Relaxed[pool[i].id, intent] THEN
        add_if(pool, i + 1, Append(final_results, pool[i]), needed - 1, intent)
    ELSE add_if(pool, i + 1, final_results, needed, intent)

OodAnswer(ood) ==
    "Da, hien tai Techstore khong kinh doanh nhom san pham " \o ood
    \o ". Anh/chi co the hoi giup em ve laptop, dien thoai, may tinh bang, phu kien cong nghe a."

NoResultAnswer ==
    "Da, em rat tiec nhung hien tai em khong tim thay san pham nao phu hop voi yeu cau cua anh/chi trong he thong a."

\* The backfill: first is filtered_results[:top_k]
backfill(top_k, pool, intent, first) ==
    IF Len(first) < top_k
    THEN add_if(pool, 1, first, top_k - Len(first), intent)
    ELSE first

\* Strict filter followed by the backfill: final_results of chat
select_results(query, top_k, pool, intent) ==
    backfill(top_k, pool, intent,
             Truncate(filter_results(query, pool, intent), top_k))

chat_failed(status, detail, made) ==
    [status |-> status, detail |-> detail, answer |-> "",
     context |-> <<>>, pool |-> <<>>, calls |-> made]

\* The reply once the answer is composed
chat_reply(search_resp, final_results, answer) ==
    IF answer = TypeError
    THEN [chat_failed(500, TypeError, search_resp.calls)
             EXCEPT !.pool = search_resp.results]
    ELSE [status |-> 200, detail |-> "", answer |-> answer,
          context |-> final_results, pool |-> search_resp.results,
          calls |-> search_resp.calls]

\* The reply once final_results is selected
chat_answer(intent, verbose, search_resp, final_results) ==
    IF final_results = <<>>
    THEN [status |-> 200, detail |-> "", answer |-> NoResultAnswer,
          context |-> <<>>, pool |-> search_resp.results,
          calls |-> search_resp.calls]
    ELSE chat_reply(search_resp, final_results,
                    generate_answer_lite(final_results, intent, verbose))

\* Handler that answers a failed retrieval with the no-result apology
chat_steps_swallow(query, top_k, ood, intent, verbose, initial_pool, search_resp) ==
    IF ood # None
    THEN [status |-> 200, detail |-> "", answer |-> OodAnswer(ood),
          context |-> <<>>, pool |-> <<>>, calls |-> NoCalls]
    ELSE IF ~SearchRequestValid(query, initial_pool)
    THEN chat_failed(500, "ValidationError", NoCalls)
    ELSE IF search_resp.status # 200
    THEN [status |-> 200, detail |-> "", answer |-> NoResultAnswer,
          context |-> <<>>, pool |-> <<>>, calls |-> search_resp.calls]
    ELSE chat_answer(intent, verbose, search_resp,
                     select_results(query, top_k, search_resp.results, intent))

\* The handler from the guardrail on: search_resp is the outcome of the
\* internal search(SearchRequest(query, top_k = initial_pool))
chat_steps(query, top_k, ood, intent, verbose, initial_pool, search_resp) ==
    IF ood # None
    THEN [status |-> 200, detail |-> "", answer |-> OodAnswer(ood),
          context |-> <<>>, pool |-> <<>>, calls |-> NoCalls]
    ELSE IF ~SearchRequestValid(query, initial_pool)
    THEN chat_failed(500, "ValidationError", NoCalls)
    ELSE IF search_resp.status # 200
    THEN chat_failed(search_resp.status, search_resp.detail, search_resp.calls)
    ELSE chat_answer(intent, verbose, search_resp,
                     select_results(query, top_k, search_resp.results, intent))

\* The /chat handler.  Result: the response, the pool and the backend calls.
chat(query, top_k, env) ==
    chat_steps(query, top_k, QueryFacts[query].ood, QueryFacts[query].intent,
               QueryFacts[query].verbose, Max(top_k * 4, MIN_POOL),
               search(query, Max(top_k * 4, MIN_POOL), env))

(***************************************************************************)
(* State machine                                                           *)
(***************************************************************************)
\* Behaviours of the backends during one request.  The reranker is only
\* reached when it is enabled and loaded.
Envs ==
    LET stored == {collection[i] : i \in 1..Len(collection)}
        base   == [embed_fails |-> FALSE, store_fails |-> FALSE,
                   rerank_throws |-> FALSE, scores |-> [i \in stored |-> 1]]
    IN  {[base EXCEPT !.embed_fails = TRUE], [base EXCEPT !.store_fails = TRUE]}
        \cup (IF ENABLE_RERANK /\ cross_encoder
              THEN {[base EXCEPT !.rerank_throws = TRUE]}
                   \cup {[base EXCEPT !.scores = f] : f \in [stored -> ScoreValues]}
              ELSE {base})

\* No request is handled concurrently
NoWorkers == <<>>

NoRequest == [op |-> "none", query |-> "", top_k |-> 0]
NoResponse == [status |-> 0, detail |-> "", answer |-> "", results |-> <<>>]

Init ==
    /\ embedder = QueryEmbedder(TRUE, FALSE)
    /\ ENABLE_RERANK \in BOOLEAN
    /\ RERANK_POOL \in RerankPoolValues
    /\ cross_encoder \in BOOLEAN
    /\ cross_encoder => ENABLE_RERANK
    /\ collection \in DistinctSeqs(MaxStore)
    /\ req = NoRequest
    /\ resp = NoResponse
    /\ search_res = <<>>
    /\ calls = NoCalls
    /\ inflight = NoWorkers

\* POST /search
Search(query, top_k, env) ==
    /\ req = NoRequest
    /\ req' = [op |-> "search", query |-> query, top_k |-> top_k]
    /\ IF ~SearchRequestValid(query, top_k)
       THEN /\ resp' = [NoResponse EXCEPT !.status = 422,
                                          !.detail = "RequestValidationError"]
            /\ search_res' = <<>>
            /\ calls' = NoCalls
       ELSE \E out \in {search(query, top_k, env)} :
            /\ resp' = [status |-> out.status, detail |-> out.detail,
                        answer |-> "", results |-> out.results]
            /\ search_res' = out.results
            /\ calls' = out.calls
    /\ UNCHANGED <<embedder, ENABLE_RERANK, RERANK_POOL, cross_encoder, collection,
                   inflight>>

\* POST /chat
Chat(query, top_k, env) ==
    /\ req = NoRequest
    /\ req' = [op |-> "chat", query |-> query, top_k |-> top_k]
    /\ IF ~ChatRequestValid(query, top_k)
       THEN /\ resp' = [NoResponse EXCEPT !.status = 422,
                                          !.detail = "RequestValidationError"]
            /\ search_res' = <<>>
            /\ calls' = NoCalls
       ELSE \E out \in {chat(query, top_k, env)} :
            /\ resp' = [status |-> out.status, detail |-> out.detail,
                        answer |-> out.answer, results |-> out.context]
            /\ search_res' = out.pool
            /\ calls' = out.calls
    /\ UNCHANGED <<embedder, ENABLE_RERANK, RERANK_POOL, cross_encoder, collection,
                   inflight>>

\* The handler has returned: the response is sent and the worker is idle
Respond ==
    /\ req # NoRequest
    /\ req' = NoRequest
    /\ resp' = NoResponse
    /\ search_res' = <<>>
    /\ calls' = NoCalls
    /\ UNCHANGED <<embedder, ENABLE_RERANK, RERANK_POOL, cross_encoder, collection,
                   inflight>>

Next ==
    \/ \E query \in Queries, top_k \in SearchTopKs, env \in Envs :
          Search(query, top_k, env)
    \/ \E query \in Queries, top_k \in ChatTopKs, env \in Envs :
          Chat(query, top_k, env)
    \/ Respond

Spec == Init /\ [][Next]_vars

(***************************************************************************)
(* Search over every top_k of its schema and a range of RERANK_POOL        *)
(* settings, against one store                                             *)
(***************************************************************************)
MaxRerankPool == 60

InitPool ==
    /\ embedder = QueryEmbedder(TRUE, FALSE)
    /\ ENABLE_RERANK \in BOOLEAN
    /\ RERANK_POOL \in -1..MaxRerankPool
    /\ cross_encoder \in BOOLEAN
    /\ cross_encoder => ENABLE_RERANK
    /\ collection = <<"c1", "c2", "c3">>
    /\ req = NoRequest
    /\ resp = NoResponse
    /\ search_res = <<>>
    /\ calls = NoCalls
    /\ inflight = NoWorkers

QuietEnvs == {e \in Envs : \A i \in DOMAIN e.scores : e.scores[i] = 1}

NextPool ==
    \/ \E top_k \in SEARCH_TOP_K_MIN..SEARCH_TOP_K_MAX, env \in QuietEnvs :
          Search("tivi", top_k, env)
    \/ Respond

SpecPool == InitPool /\ [][NextPool]_vars

(***************************************************************************)
(* Properties                                                              *)
(***************************************************************************)
ChatHandled == req.op = "chat" /\ ChatRequestValid(req.query, req.top_k)
SearchHandled == req.op = "search" /\ SearchRequestValid(req.query, req.top_k)
ChatDone == ChatHandled /\ resp.status = 200 /\ calls.store = 1
ReqIntent == QueryFacts[req.query].intent

MatchesOodGroup(q, g) == has_any(normalize_for_match(q), ood_groups[g].keywords)
FirstOodGroup(q) ==
    Leftmost({g \in 1..Len(ood_groups) : MatchesOodGroup(q, g)})

Blank(q) == \A i \in 1..Len(q) : CharAt(q, i) = " "

PoolIndexes == 1..Len(search_res)
StrictCount ==
    Cardinality({i \in PoolIndexes : IsValid[search_res[i].id, ReqIntent]})
RelaxedOnlyCount ==
    Cardinality({i \in PoolIndexes :
                    /\ ~IsValid[search_res[i].id, ReqIntent]
                    /\ Relaxed[search_res[i].id, ReqIntent]})

DocLaptopClass(id) ==
    has_any(normalize_for_match(Catalogue[id].category_name), LaptopClass)
DocDiscreteGpu(id) ==
    has_any(normalize_for_match(Catalogue[id].spec_text), DiscreteGpu)
DocGamingName(id) ==
    has_any(normalize_for_match(OrEmpty(Catalogue[id].name)), GamingBrands \cup {"gaming"})
LaptopClassDocs == {id \in Ids : DocLaptopClass(id)}
GamingMarkedDocs == {id \in Ids : DocDiscreteGpu(id) \/ DocGamingName(id)}

\* C1: a Chat request whose normalized query contains a keyword of an
\* out-of-domain group is answered by the fixed apology naming the (first
\* matching) group's label, with an empty context and without any call to the
\* embedder, the vector store or the reranker.
C1_GuardrailShortCircuits ==
    \A g \in 1..Len(ood_groups) :
        (ChatHandled /\ MatchesOodGroup(req.query, g)) =>
            /\ resp.status = 200
            /\ resp.results = <<>>
            /\ resp.answer = OodAnswer(ood_groups[FirstOodGroup(req.query)].label)
            /\ calls.embed = 0 /\ calls.store = 0 /\ calls.rerank = 0

\* an out-of-domain query that would classify GAMING, asked with top_k = 10
C1_Witness ==
    /\ ChatHandled /\ req.query = "@ t@ gaming" /\ req.top_k = 10
    /\ ReqIntent = "GAMING"
    /\ collection # <<>>
    /\ resp.answer = OodAnswer("xe co")

\* C2: every Chat request with a non-blank, non-out-of-domain query and a
\* top_k in 1..10 has its internal Search request accepted, so Chat never
\* ends in a validation error.
C2_InternalSearchAccepted ==
    (ChatHandled /\ ~Blank(req.query) /\ QueryFacts[req.query].ood = None) =>
        /\ SearchRequestValid(req.query, Max(req.top_k * 4, MIN_POOL))
        /\ resp.detail # "ValidationError"

\* C3: a Search or Chat request that returns successfully returns at most
\* top_k entries.
C3_BoundedOutput ==
    ((SearchHandled \/ ChatHandled) /\ resp.status = 200) =>
        Len(resp.results) <= req.top_k

\* the pool held more candidates than requested and the context is full
C3_Witness ==
    /\ ChatDone
    /\ Len(search_res) > req.top_k
    /\ StrictCount + RelaxedOnlyCount > req.top_k
    /\ Len(resp.results) = req.top_k

\* C4: the Chat context never holds the same candidate id twice (the pool's
\* ids being pairwise distinct), whether or not backfill ran.
C4_NoDuplicateIds ==
    ChatHandled =>
        \A i, j \in 1..Len(resp.results) :
            i # j => resp.results[i].id # resp.results[j].id

\* backfill ran, added a candidate, and passed over a strict survivor that
\* also meets the relaxed predicate
C4_Witness ==
    /\ ChatDone
    /\ \E i \in 1..Len(resp.results) : ~IsValid[resp.results[i].id, ReqIntent]
    /\ \E i \in 1..Len(resp.results) :
          /\ IsValid[resp.results[i].id, ReqIntent]
          /\ Relaxed[resp.results[i].id, ReqIntent]

\* C5: the length of the Chat context is min(top_k, s + r), s the number of
\* pool candidates passing the strict filter and r the number of the others
\* passing the relaxed predicate.
C5_ContextLength ==
    ChatDone => Len(resp.results) = Min(req.top_k, StrictCount + RelaxedOnlyCount)

\* backfill had more relaxed candidates than free slots
C5_Witness ==
    /\ ChatDone
    /\ StrictCount < req.top_k
    /\ StrictCount + RelaxedOnlyCount > req.top_k
    /\ Len(resp.results) = req.top_k

\* C6: a query that is empty or blank is rejected by Search with a client
\* error before any backend call; a blank query sent to Chat makes no backend
\* call and composes no answer, and is rejected with the same client error
\* when it reaches Search.
C6_BlankQueryRejected ==
    /\ (req.op = "search" /\ Blank(req.query)) =>
          /\ resp.status \in {400, 422}
          /\ resp.results = <<>>
          /\ calls = NoCalls
    /\ (req.op = "chat" /\ Blank(req.query)) =>
          /\ resp.answer = ""
          /\ resp.results = <<>>
          /\ calls = NoCalls
          /\ (ChatHandled
              /\ SearchRequestValid(req.query, Max(req.top_k * 4, MIN_POOL)))
                => (resp.status = 400 /\ resp.detail = "Empty query")

\* a whitespace-only query reached Search through Chat, over a non-empty store
C6_Witness ==
    /\ req.op = "chat" /\ req.query = "  "
    /\ collection # <<>>
    /\ resp.status = 400

\* C7 as stated: for a GAMING query every context entry is laptop-class and
\* has a discrete-graphics keyword or a gaming brand token, whichever pass
\* selected it.
C7_GamingContextStrict ==
    (ChatDone /\ ReqIntent = "GAMING") =>
        \A i \in 1..Len(resp.results) :
            /\ resp.results[i].id \in LaptopClassDocs
            /\ resp.results[i].id \in GamingMarkedDocs

\* C7 amended: for a GAMING query every context entry has a discrete-graphics
\* keyword in its spec text or a gaming brand token in its name; an entry
\* that is not laptop-class stands after all strict survivors of the pool
\* (it was backfilled) and has a gaming token in its name.
C7_GamingContext ==
    (ChatDone /\ ReqIntent = "GAMING") =>
        \A i \in 1..Len(resp.results) :
            /\ resp.results[i].id \in GamingMarkedDocs
            /\ resp.results[i].id \notin LaptopClassDocs =>
                  /\ i > StrictCount
                  /\ DocGamingName(resp.results[i].id)

\* a strict survivor followed by a backfilled accessory
C7_Witness ==
    /\ ChatDone /\ ReqIntent = "GAMING"
    /\ Len(resp.results) = 2
    /\ resp.results[1].id \in LaptopClassDocs
    /\ resp.results[2].id \notin LaptopClassDocs

\* C8: when Chat ends with no candidate, the answer is the apology that names
\* the detected intent when it is not GENERAL, the generic apology for
\* GENERAL, and the context is empty.
C8_EmptyApologyNamesIntent ==
    (ChatDone /\ resp.results = <<>>) =>
        resp.answer = generate_answer_lite(<<>>, ReqIntent, FALSE)
        \/ (ReqIntent = "GENERAL" /\ resp.answer = NoResultAnswer)

\* Store order, first n entries, no rerank score
StorePrefix(n) ==
    [i \in 1..Min(n, Len(collection)) |-> [id |-> collection[i], cross_score |-> <<>>]]

\* C9 as stated: when the reranker throws, Search succeeds with the first
\* top_k candidates in store order, top_k of them whenever the store holds
\* at least top_k entries.
C9_RerankFailureFullTopK ==
    (SearchHandled /\ calls.rerank_error) =>
        /\ resp.status = 200
        /\ resp.results = StorePrefix(req.top_k)

\* C9 amended: when the reranker throws, Search succeeds and returns, in store
\* order and without rerank scores, the first top_k candidates of the pool it
\* requested: min(top_k, requested pool size, store size) entries.
C9_RerankFailureFallsBack ==
    (SearchHandled /\ calls.rerank_error) =>
        /\ resp.status = 200
        /\ resp.results = StorePrefix(Min(req.top_k, calls.n_results))

\* the reranker threw over a pool of two
C9_Witness ==
    /\ SearchHandled /\ calls.rerank_error
    /\ Len(resp.results) = 2

\* C10 as stated: Search requests top_k candidates when reranking is
\* disabled and max(top_k, RERANK_POOL) when it is enabled, never fewer than
\* top_k.
C10_PoolIsMax ==
    (SearchHandled /\ calls.store = 1) =>
        /\ calls.n_results =
              (IF ENABLE_RERANK THEN Max(req.top_k, RERANK_POOL) ELSE req.top_k)
        /\ calls.n_results >= req.top_k

\* C10 amended: Search requests top_k candidates when reranking is disabled;
\* when it is enabled it requests RERANK_POOL if that is positive and
\* min(2 * top_k, 50) otherwise; the request is smaller than top_k exactly
\* when reranking is enabled and 0 < RERANK_POOL < top_k.
C10_PoolSize ==
    (SearchHandled /\ calls.store = 1) =>
        /\ ~ENABLE_RERANK => calls.n_results = req.top_k
        /\ (ENABLE_RERANK /\ RERANK_POOL > 0) => calls.n_results = RERANK_POOL
        /\ (ENABLE_RERANK /\ RERANK_POOL <= 0) =>
              calls.n_results = Min(2 * req.top_k, AUTO_POOL_CAP)
        /\ (calls.n_results < req.top_k) <=>
              (ENABLE_RERANK /\ 0 < RERANK_POOL /\ RERANK_POOL < req.top_k)

\* a configured pool smaller than the requested top_k
C10_Witness ==
    /\ SearchHandled /\ calls.store = 1
    /\ ENABLE_RERANK /\ RERANK_POOL = 5
    /\ req.top_k = 20 /\ calls.n_results = 5

\* C11 as stated: the number of candidates Search requests from the store
\* never exceeds the ceiling of 50, whatever top_k and RERANK_POOL are.
C11_PoolCeiling ==
    (SearchHandled /\ calls.store = 1) => calls.n_results <= AUTO_POOL_CAP

\* C11 amended: the request stays within min(2 * 20, 50) when reranking is
\* disabled or RERANK_POOL is not positive; a positive RERANK_POOL is used
\* as it is, so the request exceeds 50 exactly when reranking is enabled
\* and RERANK_POOL is above 50.
C11_PoolBound ==
    (SearchHandled /\ calls.store = 1) =>
        /\ (~ENABLE_RERANK \/ RERANK_POOL <= 0) =>
              calls.n_results <= Min(2 * SEARCH_TOP_K_MAX, AUTO_POOL_CAP)
        /\ (calls.n_results > AUTO_POOL_CAP) <=>
              (ENABLE_RERANK /\ RERANK_POOL > AUTO_POOL_CAP)
        /\ calls.n_results > AUTO_POOL_CAP => calls.n_results = RERANK_POOL

\* a configured pool above the ceiling
C11_Witness ==
    /\ SearchHandled /\ calls.store = 1
    /\ ENABLE_RERANK /\ RERANK_POOL = 60
    /\ calls.n_results = 60

(***************************************************************************)
(* detect_intent applied to a range of query texts, called repeatedly and  *)
(* under several service configurations                                    *)
(***************************************************************************)
IntentWords == {"Laptop", "ch@i game", "van phong", "iphone", "tablet", "chuot",
                "camera", "pin", "oled", "ssd", "server", "tivi"}
IntentPrefixes == {"Laptop", "tivi", "#@ hoa"}
IntentQueries ==
    IntentWords \cup IntentPrefixes
    \cup {a \o " " \o b : a \in IntentPrefixes, b \in IntentWords}

InitIntent ==
    /\ embedder \in EmbedderBackends
    /\ ENABLE_RERANK \in BOOLEAN
    /\ RERANK_POOL = 0
    /\ cross_encoder = FALSE
    /\ collection \in {<<>>, <<"c1">>}
    /\ req = NoRequest
    /\ resp = NoResponse
    /\ search_res = <<>>
    /\ calls = NoCalls
    /\ inflight = NoWorkers

\* intent = detect_intent(query); the value is kept in resp.detail
DetectIntent(query) ==
    /\ req' = [op |-> "detect_intent", query |-> query, top_k |-> 0]
    /\ resp' = [NoResponse EXCEPT !.detail = detect_intent(query)]
    /\ UNCHANGED <<embedder, ENABLE_RERANK, RERANK_POOL, cross_encoder, collection,
                   search_res, calls, inflight>>

NextIntent == \E query \in IntentQueries : DetectIntent(query)

SpecIntent == InitIntent /\ [][NextIntent]_vars

IntentDetected == req.op = "detect_intent"
\* rules with a keyword occurring in the matching-normalized query
RulesHit(q) ==
    {r \in 1..Len(intent_rules) :
        \E k \in intent_rules[r].keywords : Contains(normalize_for_match(q), k)}
RuleOrder == <<"GAMING", "OFFICE", "PHONE", "TABLET", "ACCESSORY", "LAPTOP",
               "CAMERA", "BATTERY", "DISPLAY", "STORAGE", "BUSINESS">>
GamingKeywords == intent_rules[1].keywords

\* C12: detect_intent returns the intent of the first rule, in the order
\* GAMING, OFFICE, PHONE, TABLET, ACCESSORY, LAPTOP, CAMERA, BATTERY, DISPLAY,
\* STORAGE, BUSINESS, that has a keyword occurring in the matching-normalized
\* query; a query with a gaming keyword and the word laptop yields GAMING.
C12_FirstRuleWins ==
    IntentDetected =>
        /\ \A r \in RulesHit(req.query) :
              (\A e \in RulesHit(req.query) : r <= e) => resp.detail = RuleOrder[r]
        /\ (/\ has_any(normalize_for_match(req.query), GamingKeywords)
            /\ Contains(normalize_for_match(req.query), "laptop"))
              => resp.detail = "GAMING"

\* a query with the word laptop and a gaming keyword written with a diacritic
C12_Witness ==
    /\ IntentDetected /\ req.query = "Laptop ch@i game"
    /\ RulesHit(req.query) = {1, 6}
    /\ resp.detail = "GAMING"

StartupStore == 1

InitStartup ==
    /\ \E st_loads, openai_key \in BOOLEAN :
          embedder = QueryEmbedder(st_loads, openai_key)
    /\ ENABLE_RERANK = FALSE
    /\ RERANK_POOL = 0
    /\ cross_encoder = FALSE
    /\ collection \in DistinctSeqs(StartupStore)
    /\ req = NoRequest
    /\ resp = NoResponse
    /\ search_res = <<>>
    /\ calls = NoCalls
    /\ inflight = NoWorkers

SpecStartup == InitStartup /\ [][Next]_vars

\* C14: in every state in which a Search or Chat request is being handled,
\* an embedding backend has been selected (startup fails otherwise, so no
\* request is ever accepted without one).
C14_BackendSelected ==
    (SearchHandled \/ ChatHandled) => embedder # "none"

\* C15: when the embedder call fails (it was made and the store was not
\* queried), Search reports a 500 with no results; when the store query
\* fails, Search reports a 500; each backend is called at most once per
\* request; through Chat the failure is the response, with no answer and no
\* context.
C15_BackendFailurePropagates ==
    (SearchHandled \/ ChatHandled) =>
        /\ calls.embed <= 1 /\ calls.store <= 1 /\ calls.rerank <= 1
        /\ (calls.embed = 1 /\ calls.store = 0) =>
              /\ resp.status = 500 /\ resp.detail = "Embedding error"
              /\ resp.results = <<>> /\ resp.answer = ""
        /\ (calls.store = 1 /\ resp.status # 200) =>
              /\ resp.status = 500 /\ resp.detail = "Vector DB error"
              /\ resp.results = <<>> /\ resp.answer = ""
              /\ calls.rerank = 0
        /\ resp.detail = "Embedding error" => (calls.embed = 1 /\ calls.store = 0)
        /\ resp.detail = "Vector DB error" => (calls.embed = 1 /\ calls.store = 1)

\* the store query failed under a Chat request whose store holds a candidate
\* that passes the strict filter
C15_Witness ==
    /\ ChatHandled /\ ReqIntent = "PHONE"
    /\ collection = <<"c4">>
    /\ resp.status = 500 /\ resp.detail = "Vector DB error"
    /\ calls.store = 1

(***************************************************************************)
(* Requests handled concurrently: FastAPI runs the two synchronous         *)
(* handlers in worker threads.  Each worker goes through its handler step  *)
(* by step; the steps of different workers interleave.  A step reads the   *)
(* objects created at import and writes the worker's own locals.           *)
(***************************************************************************)
Workers == {1, 2}
ConcQueries == {"iphone", "tivi"}
ConcTopKs == {1, 2}

IdleWorker == [pc |-> "idle", req |-> NoRequest, k |-> 0, interim |-> <<>>,
               resp |-> NoResponse]

Shared == <<embedder, ENABLE_RERANK, RERANK_POOL, cross_encoder, collection>>
Sequential == <<req, resp, search_res, calls>>

InitConc ==
    /\ embedder = QueryEmbedder(TRUE, FALSE)
    /\ ENABLE_RERANK = TRUE
    /\ RERANK_POOL = 0
    /\ cross_encoder = TRUE
    /\ collection = <<"c1", "c4">>
    /\ req = NoRequest
    /\ resp = NoResponse
    /\ search_res = <<>>
    /\ calls = NoCalls
    /\ inflight = [w \in Workers |-> IdleWorker]

WorkerDone(me, status, detail, answer, results) ==
    [me EXCEPT !.pc = "done",
               !.resp = [status |-> status, detail |-> detail,
                         answer |-> answer, results |-> results]]

\* The request is validated against its schema and handed to a worker
Accept(w, op, query, top_k) ==
    /\ inflight[w].pc = "idle"
    /\ IF op = "search" THEN SearchRequestValid(query, top_k)
                        ELSE ChatRequestValid(query, top_k)
    /\ inflight' = [inflight EXCEPT ![w] =
           [IdleWorker EXCEPT !.pc = "accepted",
                              !.req = [op |-> op, query |-> query, top_k |-> top_k]]]
    /\ UNCHANGED <<Shared, Sequential>>

\* chat up to its call of search: guardrail, intent, internal request
Enter_as(me) ==
    IF me.req.op = "search" THEN [me EXCEPT !.pc = "search", !.k = me.req.top_k]
    ELSE IF is_out_of_domain(me.req.query) # None
    THEN WorkerDone(me, 200, "", OodAnswer(is_out_of_domain(me.req.query)), <<>>)
    ELSE IF ~SearchRequestValid(me.req.query, Max(me.req.top_k * 4, MIN_POOL))
    THEN WorkerDone(me, 500, "ValidationError", "", <<>>)
    ELSE [me EXCEPT !.pc = "search", !.k = Max(me.req.top_k * 4, MIN_POOL)]

Enter(w) ==
    /\ inflight[w].pc = "accepted"
    /\ inflight' = [inflight EXCEPT ![w] = Enter_as(inflight[w])]
    /\ UNCHANGED <<Shared, Sequential>>

\* search: strip, empty-query test, _embedder.encode
Embed(w, env) ==
    /\ inflight[w].pc = "search"
    /\ inflight' = [inflight EXCEPT ![w] =
           IF strip(inflight[w].req.query) = ""
           THEN WorkerDone(inflight[w], 400, "Empty query", "", <<>>)
           ELSE IF encode_raises(env)
           THEN WorkerDone(inflight[w], 500, "Embedding error", "", <<>>)
           ELSE [inflight[w] EXCEPT !.pc = "embedded"]]
    /\ UNCHANGED <<Shared, Sequential>>

\* search: _collection.query and the construction of interim
Query(w, env) ==
    /\ inflight[w].pc = "embedded"
    /\ inflight' = [inflight EXCEPT ![w] =
           IF env.store_fails
           THEN WorkerDone(inflight[w], 500, "Vector DB error", "", <<>>)
           ELSE [inflight[w] EXCEPT !.pc = "queried",
                                    !.interim = StoreQuery(pool_size(inflight[w].k))]]
    /\ UNCHANGED <<Shared, Sequential>>

\* Store whose order follows the pool a request has just sorted
collection_sorted_in_place(interim) ==
    [i \in 1..Len(collection) |->
        IF i <= Len(interim) THEN interim[i].id ELSE collection[i]]

\* The store after a request's rerank: interim is a list built by the
\* request itself, its scores and its sort stay in that list
collection_after_rerank(interim) == collection

Reranked(interim, env) ==
    IF rerank_on(interim) THEN Rerank(interim, env) ELSE interim

\* search: the rerank block
RerankStep(w, env) ==
    /\ inflight[w].pc = "queried"
    /\ inflight' = [inflight EXCEPT ![w] =
           [inflight[w] EXCEPT !.pc = "ranked",
                               !.interim = Reranked(inflight[w].interim, env)]]
    /\ collection' = collection_after_rerank(Reranked(inflight[w].interim, env))
    /\ UNCHANGED <<embedder, ENABLE_RERANK, RERANK_POOL, cross_encoder, Sequential>>

ChatView(out) ==
    [status |-> out.status, detail |-> out.detail, answer |-> out.answer,
     results |-> out.context]
SearchView(out) ==
    [status |-> out.status, detail |-> out.detail, answer |-> "",
     results |-> out.results]

\* search: truncation and return; chat: filter, backfill, answer
Finish_as(me, final) ==
    IF me.req.op = "search"
    THEN [me EXCEPT !.pc = "done",
                    !.resp = [status |-> 200, detail |-> "", answer |-> "",
                              results |-> final]]
    ELSE [me EXCEPT !.pc = "done",
                    !.resp = ChatView(chat_answer(
                        detect_intent(me.req.query), detect_verbose(me.req.query),
                        [results |-> final, calls |-> NoCalls],
                        select_results(me.req.query, me.req.top_k, final,
                                       detect_intent(me.req.query))))]

Finish(w) ==
    /\ inflight[w].pc = "ranked"
    /\ inflight' = [inflight EXCEPT ![w] =
           Finish_as(inflight[w], Truncate(inflight[w].interim, inflight[w].k))]
    /\ UNCHANGED <<Shared, Sequential>>

\* The response is sent; the worker is free again
Reply(w) ==
    /\ inflight[w].pc = "done"
    /\ inflight' = [inflight EXCEPT ![w] = IdleWorker]
    /\ UNCHANGED <<Shared, Sequential>>

NextConc ==
    \/ \E w \in Workers, op \in {"search", "chat"}, query \in ConcQueries,
          top_k \in ConcTopKs : Accept(w, op, query, top_k)
    \/ \E w \in Workers : Enter(w)
    \/ \E w \in Workers, env \in Envs : Embed(w, env)
    \/ \E w \in Workers, env \in Envs : Query(w, env)
    \/ \E w \in Workers, env \in Envs : RerankStep(w, env)
    \/ \E w \in Workers : Finish(w)
    \/ \E w \in Workers : Reply(w)

SpecConc == InitConc /\ [][NextConc]_vars

\* The response of the request run alone against the store, the backends
\* behaving as env
AloneResponse(r, env) ==
    IF r.op = "search" THEN SearchView(search(r.query, r.top_k, env))
    ELSE ChatView(chat(r.query, r.top_k, env))

\* C16: whatever the interleaving of concurrently handled Search and Chat
\* requests, the response of each request is a response the same request
\* produces when run alone against the same store, and no step of a handler
\* changes an object shared between requests.
C16_ResponseAsAlone ==
    /\ [](\A w \in Workers :
             inflight[w].pc = "done" =>
                 \E env \in Envs :
                     inflight[w].resp = AloneResponse(inflight[w].req, env))
    /\ [][UNCHANGED Shared]_vars

\* a Chat request answered from a reranked pool while a Search request of
\* the other worker is between its store query and its rerank
C16_Witness ==
    /\ inflight[1].pc = "done" /\ inflight[1].req.op = "chat"
    /\ inflight[1].resp.status = 200
    /\ inflight[1].req.query = "tivi" /\ inflight[1].req.top_k = 2
    /\ inflight[1].resp.results[1].id = "c4"
    /\ inflight[2].pc = "queried" /\ inflight[2].req.op = "search"

(***************************************************************************)
(* filter_results applied to candidate lists drawn from documents of every *)
(* category, under every intent                                            *)
(***************************************************************************)
MaxCandidates == 3
FilterQueries == {"iphone"}
FilterIds == {"c1", "c3", "c4", "c6", "c7", "c8", "c9", "c10"}

\* Lists of at most n pairwise distinct candidates
RECURSIVE CandidateLists(_)
CandidateLists(n) ==
    IF n = 0 THEN {<<>>}
    ELSE CandidateLists(n - 1) \cup
         {Append(p[1], [id |-> p[2], cross_score |-> <<>>]) :
             p \in {x \in CandidateLists(n - 1) \X FilterIds :
                       /\ Len(x[1]) = n - 1
                       /\ \A k \in 1..Len(x[1]) : x[1][k].id # x[2]}}

\* search_res holds the candidate list the filter is about to be given
InitFilter ==
    /\ embedder = QueryEmbedder(TRUE, FALSE)
    /\ ENABLE_RERANK = FALSE
    /\ RERANK_POOL = 0
    /\ cross_encoder = FALSE
    /\ collection = <<>>
    /\ req = NoRequest
    /\ resp = NoResponse
    /\ search_res \in CandidateLists(MaxCandidates)
    /\ calls = NoCalls
    /\ inflight = NoWorkers

\* filtered_results = filter_results(query, search_res.results, intent);
\* the value is kept in resp.results
FilterResults(query, intent) ==
    /\ req = NoRequest
    /\ req' = [op |-> "filter_results", query |-> query, top_k |-> 0,
               intent |-> intent]
    /\ resp' = [NoResponse EXCEPT !.results =
                                      filter_results(query, search_res, intent)]
    /\ UNCHANGED <<embedder, ENABLE_RERANK, RERANK_POOL, cross_encoder, collection,
                   search_res, calls, inflight>>

NextFilter ==
    \E query \in FilterQueries, intent \in Intents : FilterResults(query, intent)

SpecFilter == InitFilter /\ [][NextFilter]_vars

Filtered == req.op = "filter_results"

\* a is b with some entries left out
RECURSIVE IsSubsequence(_, _)
IsSubsequence(a, b) ==
    IF a = <<>> THEN TRUE
    ELSE IF b = <<>> THEN FALSE
    ELSE IF Head(a) = Head(b) THEN IsSubsequence(Tail(a), Tail(b))
    ELSE IsSubsequence(a, Tail(b))

\* C17: the output of filter_results is a subsequence of its input: it is no
\* longer than the input, each output candidate is an input candidate, and
\* the survivors keep their relative order.
C17_FilterSubsequence ==
    Filtered =>
        /\ Len(resp.results) <= Len(search_res)
        /\ \A i \in 1..Len(resp.results) :
              \E j \in 1..Len(search_res) : resp.results[i] = search_res[j]
        /\ IsSubsequence(resp.results, search_res)

\* the filter dropped the candidate standing between two survivors
C17_Witness ==
    /\ Filtered /\ req.intent = "LAPTOP"
    /\ Len(search_res) = 3 /\ Len(resp.results) = 2
    /\ resp.results[1] = search_res[1]
    /\ resp.results[2] = search_res[3]

Strict(r) == IsValid[r.id, ReqIntent]
StrictSurvivors == SelectSeq(search_res, Strict)
PoolPosition(r) == CHOOSE j \in PoolIndexes : search_res[j] = r
KeptStrict == Min(req.top_k, Len(StrictSurvivors))

\* C18: the Chat context is the first top_k strict-filter survivors in pool
\* order, followed by backfilled candidates in pool order among themselves;
\* a backfilled candidate is present only when every strict survivor is in
\* the context; every context entry is an entry of the pool Search returned.
C18_StrictThenBackfill ==
    ChatDone =>
        /\ Len(resp.results) >= KeptStrict
        /\ SubSeq(resp.results, 1, KeptStrict) = SubSeq(StrictSurvivors, 1, KeptStrict)
        /\ \A i \in 1..Len(resp.results) :
              \E j \in PoolIndexes : resp.results[i] = search_res[j]
        /\ \A i \in (KeptStrict + 1)..Len(resp.results) :
              /\ ~Strict(resp.results[i])
              /\ Len(StrictSurvivors) < req.top_k
              /\ \A h \in (KeptStrict + 1)..(i - 1) :
                    PoolPosition(resp.results[h]) < PoolPosition(resp.results[i])

\* two candidates, both backfilled, the pool holding no strict survivor
C18_Witness ==
    /\ ChatDone /\ ReqIntent = "GAMING"
    /\ StrictSurvivors = <<>>
    /\ Len(resp.results) = 2
    /\ resp.results = search_res

RelaxedIntents == {"GAMING", "PHONE", "OFFICE"}
DocGamingToken(id) ==
    has_any(lower(OrEmpty(Catalogue[id].name)),
            {"gaming", "legion", "strix", "nitro", "omen", "predator"})
DocPhoneCandidate(id) ==
    is_phone_candidate(OrEmpty(Catalogue[id].name), Catalogue[id].category_name,
                       Catalogue[id].spec_text)
Backfilled == (KeptStrict + 1)..Len(resp.results)

\* C19: every backfilled candidate meets the relaxed predicate of the
\* detected intent (GAMING: a gaming token in the name; PHONE: the
\* phone-candidate heuristic; OFFICE: a laptop-class category) and was not
\* selected before; for an intent without a relaxed rule, and when no pool
\* candidate outside the strict survivors meets the rule, nothing is added
\* and a context with fewer than top_k strict survivors stays shorter than
\* top_k; at most top_k minus the number of strict survivors are added (two
\* for PHONE with one strict survivor and top_k = 3).
C19_BackfillRelaxedOnly ==
    ChatDone =>
        /\ \A i \in Backfilled :
              /\ ReqIntent \in RelaxedIntents
              /\ ReqIntent = "GAMING" => DocGamingToken(resp.results[i].id)
              /\ ReqIntent = "PHONE" => DocPhoneCandidate(resp.results[i].id)
              /\ ReqIntent = "OFFICE" => DocLaptopClass(resp.results[i].id)
              /\ \A h \in 1..(i - 1) : resp.results[h].id # resp.results[i].id
        /\ (ReqIntent \notin RelaxedIntents \/ RelaxedOnlyCount = 0) =>
              /\ Backfilled = {}
              /\ Len(StrictSurvivors) < req.top_k => Len(resp.results) < req.top_k
        /\ Len(StrictSurvivors) < req.top_k =>
              Cardinality(Backfilled) <= req.top_k - Len(StrictSurvivors)
        /\ (ReqIntent = "PHONE" /\ Len(StrictSurvivors) = 1 /\ req.top_k = 3) =>
              Cardinality(Backfilled) <= 2

\* an OFFICE context whose second entry failed the strict filter and was
\* backfilled on its laptop category
C19_Witness ==
    /\ ChatDone /\ ReqIntent = "OFFICE"
    /\ Len(StrictSurvivors) = 1 /\ req.top_k = 3
    /\ Len(resp.results) = 2
    /\ ~Strict(resp.results[2])
    /\ DocLaptopClass(resp.results[2].id)

DocPhoneCategory(id) ==
    has_any(normalize_for_match(Catalogue[id].category_name), PhoneCategories)
DocPhoneBrandName(id) ==
    has_any(normalize_for_match(OrEmpty(Catalogue[id].name)), PhoneBrands)
DocPhoneOs(id) ==
    has_any(normalize_for_match(Catalogue[id].spec_text), {"android", "ios"})
DocPhoneSignal(id) ==
    \/ has_any(normalize_for_match(Catalogue[id].spec_text), PhoneSignals)
    \/ UnitPattern(normalize_for_match(Catalogue[id].spec_text), 4, 6, "mah")
    \/ UnitPattern(normalize_for_match(Catalogue[id].spec_text), 1, 3, "mp")
Admitted(id) == \E i \in 1..Len(resp.results) : resp.results[i].id = id
Offered == {search_res[j].id : j \in 1..Len(search_res)}

\* C20 as stated: under PHONE a candidate is admitted if and only if its
\* category names a phone category, or its name has a phone brand token and
\* its spec text a phone signal; a candidate with a non-phone category and
\* no brand token in its name is always dropped.
C20_PhoneBrandInName ==
    (Filtered /\ req.intent = "PHONE") =>
        \A id \in Offered :
            /\ Admitted(id) <=>
                  \/ DocPhoneCategory(id)
                  \/ (DocPhoneBrandName(id) /\ DocPhoneSignal(id))
            /\ (~DocPhoneCategory(id) /\ ~DocPhoneBrandName(id)) => ~Admitted(id)

\* C20 amended: under PHONE a candidate is admitted if and only if its
\* category names a phone category, or it has a brand cue (a phone brand
\* token in its name, or "android" or "ios" in its spec text) and its spec
\* text has a phone signal; a candidate with a non-phone category and no
\* brand cue, or no phone signal, is dropped.
C20_PhoneBrandCue ==
    (Filtered /\ req.intent = "PHONE") =>
        \A id \in Offered :
            /\ Admitted(id) <=>
                  \/ DocPhoneCategory(id)
                  \/ ((DocPhoneBrandName(id) \/ DocPhoneOs(id)) /\ DocPhoneSignal(id))
            /\ (/\ ~DocPhoneCategory(id)
                /\ (~(DocPhoneBrandName(id) \/ DocPhoneOs(id)) \/ ~DocPhoneSignal(id)))
                  => ~Admitted(id)

\* a tablet admitted on the operating system named in its spec text, next to
\* a phone case dropped for want of a signal and a router dropped for want
\* of a brand cue
C20_Witness ==
    /\ Filtered /\ req.intent = "PHONE"
    /\ Offered = {"c6", "c7", "c8"}
    /\ Admitted("c6") /\ ~DocPhoneCategory("c6") /\ ~DocPhoneBrandName("c6")
    /\ ~Admitted("c7") /\ DocPhoneBrandName("c7")
    /\ ~Admitted("c8") /\ DocPhoneSignal("c8")

DocCategoryHas(id, keywords) ==
    has_any(normalize_for_match(Catalogue[id].category_name), keywords)
DocGamingWord(id) ==
    \/ Contains(normalize_for_match(OrEmpty(Catalogue[id].name)), "gaming")
    \/ Contains(normalize_for_match(Catalogue[id].category_name), "gaming")
\* the figure that follows the word "weight" in the spec text, if any
DocWeight(id) == WeightSearch(normalize_for_match(Catalogue[id].spec_text))
UnfilteredIntents == {"GENERAL", "CAMERA", "BATTERY", "DISPLAY", "STORAGE",
                      "BUSINESS"}

MaxRerankStore == 3
RerankIds == {"c1", "c3", "c4", "c11"}
RerankQueries == {"tivi", "iphone", "laptop"}
RerankTopKs == {1, 2, 3}

\* r.document or r.name or "": the passage paired with the query
passage(id) == OrElse(Catalogue[id].document, OrElse(Catalogue[id].name, ""))

\* _cross_encoder.predict: one score for every pair, the pair with an empty
\* passage included
CrossScore ==
    [q \in RerankQueries |->
        CASE q = "tivi"   -> [c1 |-> 1,  c3 |-> -2, c4 |-> 1,  c11 |-> 0]
          [] q = "iphone" -> [c1 |-> -2, c3 |-> -2, c4 |-> 1,  c11 |-> -2]
          [] OTHER        -> [c1 |-> 1,  c3 |-> 1,  c4 |-> -2, c11 |-> 1]]

\* Stores of at most n pairwise distinct documents
RECURSIVE RerankStores(_)
RerankStores(n) ==
    IF n = 0 THEN {<<>>}
    ELSE RerankStores(n - 1) \cup
         {Append(p[1], p[2]) :
             p \in {x \in RerankStores(n - 1) \X RerankIds :
                       /\ Len(x[1]) = n - 1
                       /\ \A k \in 1..Len(x[1]) : x[1][k] # x[2]}}

\* The backends answer; the reranker scores the pool or raises
RerankEnvs(query) ==
    {[embed_fails |-> FALSE, store_fails |-> FALSE, rerank_throws |-> t,
      scores |-> [i \in {collection[k] : k \in 1..Len(collection)} |->
                     CrossScore[query][i]]] : t \in BOOLEAN}

InitRerank ==
    /\ embedder = QueryEmbedder(TRUE, FALSE)
    /\ ENABLE_RERANK = TRUE
    /\ RERANK_POOL \in {0, 2}
    /\ cross_encoder \in BOOLEAN
    /\ collection \in RerankStores(MaxRerankStore)
    /\ req = NoRequest
    /\ resp = NoResponse
    /\ search_res = <<>>
    /\ calls = NoCalls
    /\ inflight = NoWorkers

NextRerank ==
    \/ \E query \in RerankQueries, top_k \in RerankTopKs :
          \E env \in RerankEnvs(query) : Search(query, top_k, env)
    \/ \E query \in RerankQueries, top_k \in RerankTopKs :
          \E env \in RerankEnvs(query) : Chat(query, top_k, env)
    \/ Respond

SpecRerank == InitRerank /\ [][NextRerank]_vars

\* Search ran the rerank block and predict() returned
RerankedSearch == SearchHandled /\ calls.rerank = 1 /\ ~calls.rerank_error
\* the documents the store returned for the request
Requested == {collection[i] : i \in 1..Min(calls.n_results, Len(collection))}
Returned == {resp.results[i].id : i \in 1..Len(resp.results)}
StorePosition(id) == CHOOSE i \in 1..Len(collection) : collection[i] = id
\* a goes before b: higher score, or equal score and retrieved earlier
Ahead(a, b) ==
    \/ CrossScore[req.query][a] > CrossScore[req.query][b]
    \/ /\ CrossScore[req.query][a] = CrossScore[req.query][b]
       /\ StorePosition(a) < StorePosition(b)

\* C22: when reranking is enabled and the reranker succeeds, Search returns
\* the first top_k candidates of the whole pool sorted by descending rerank
\* score, candidates with equal score staying in retrieval order: each
\* returned candidate carries its score, goes before every returned
\* candidate after it and before every pool candidate that was cut off.
C22_StableDescending ==
    RerankedSearch =>
        /\ Len(resp.results) = Min(req.top_k, Cardinality(Requested))
        /\ \A i \in 1..Len(resp.results) :
              /\ resp.results[i].id \in Requested
              /\ resp.results[i].cross_score =
                    <<CrossScore[req.query][resp.results[i].id]>>
              /\ \A j \in (i + 1)..Len(resp.results) :
                    Ahead(resp.results[i].id, resp.results[j].id)
              /\ \A id \in Requested \ Returned : Ahead(resp.results[i].id, id)

\* the lowest-scored candidate, retrieved first, is cut off; the two others
\* have equal scores and stay in retrieval order
C22_Witness ==
    /\ RerankedSearch /\ req.query = "tivi" /\ req.top_k = 2
    /\ collection = <<"c3", "c1", "c4">>
    /\ Requested = {"c1", "c3", "c4"}
    /\ resp.results[1].id = "c1" /\ resp.results[2].id = "c4"

\* a candidate whose passage is empty, or that carries no rerank score
Unscorable(r) == passage(r.id) = "" \/ r.cross_score = <<>>

\* C23: after a rerank, every candidate without a computable rerank score
\* (empty passage, or no score assigned) stands after every candidate that
\* has one, whatever the scores are.
C23_UnscoredLast ==
    RerankedSearch =>
        \A i \in 1..Len(resp.results) : \A j \in (i + 1)..Len(resp.results) :
            ~(Unscorable(resp.results[i]) /\ ~Unscorable(resp.results[j]))

(***************************************************************************)
(* generate_answer_lite applied to contexts drawn from documents with and  *)
(* without a name, a price, a selling point and processor or graphics      *)
(* patterns, under every intent and both verbosities                       *)
(***************************************************************************)
MaxContext == 4
AnswerIds == {"c1", "c3", "c4", "c9", "c11"}

\* Contexts of at most n pairwise distinct candidates
RECURSIVE Contexts(_)
Contexts(n) ==
    IF n = 0 THEN {<<>>}
    ELSE Contexts(n - 1) \cup
         {Append(p[1], [id |-> p[2], cross_score |-> <<>>]) :
             p \in {x \in Contexts(n - 1) \X AnswerIds :
                       /\ Len(x[1]) = n - 1
                       /\ \A k \in 1..Len(x[1]) : x[1][k].id # x[2]}}

\* search_res holds final_results, the context the composer is given
InitAnswer ==
    /\ embedder = QueryEmbedder(TRUE, FALSE)
    /\ ENABLE_RERANK = FALSE
    /\ RERANK_POOL = 0
    /\ cross_encoder = FALSE
    /\ collection = <<>>
    /\ req = NoRequest
    /\ resp = NoResponse
    /\ search_res \in Contexts(MaxContext)
    /\ calls = NoCalls
    /\ inflight = NoWorkers

\* answer = generate_answer_lite(final_results, intent, verbose); a raised
\* TypeError is kept in resp.detail
Compose(intent, verbose) ==
    /\ req = NoRequest
    /\ req' = [op |-> "generate_answer_lite", query |-> "", top_k |-> 0,
               intent |-> intent, verbose |-> verbose]
    /\ \E answer \in {generate_answer_lite(search_res, intent, verbose)} :
          resp' = IF answer = TypeError
                  THEN [NoResponse EXCEPT !.detail = TypeError]
                  ELSE [NoResponse EXCEPT !.answer = answer]
    /\ UNCHANGED <<embedder, ENABLE_RERANK, RERANK_POOL, cross_encoder, collection,
                   search_res, calls, inflight>>

NextAnswer == \E intent \in Intents, verbose \in BOOLEAN : Compose(intent, verbose)

SpecAnswer == InitAnswer /\ [][NextAnswer]_vars

\* an answer was composed for a non-empty context
Composed ==
    req.op = "generate_answer_lite" /\ search_res # <<>> /\ resp.detail # TypeError
Best == Catalogue[search_res[1].id]
BestText == OrEmpty(Best.spec_text)
BestSpecs == extract_specs(BestText)
SpecFields == {"cpu", "gpu", "ram", "storage", "battery", "weight", "screen"}

\* C24: each field extract_specs returns for the top candidate's spec text
\* is absent or a string that occurs in that text (so processor and graphics
\* are absent for an empty text and for a text without their patterns), and
\* a processor or graphics value that a composed answer contains occurs in
\* the top candidate's spec text.
C24_NeverFabricated ==
    Composed =>
        /\ \A f \in SpecFields :
              BestSpecs[f] = None \/ Contains(BestText, BestSpecs[f])
        /\ \A f \in {"cpu", "gpu"} :
              (BestSpecs[f] # None /\ Contains(resp.answer, BestSpecs[f])) =>
                  Contains(BestText, BestSpecs[f])

\* f"{best.name}"
BestName == Best.name
\* The price as the answer shows it: the amount in groups of three digits
\* with the currency, or the contact-us wording for a price of zero or none
PriceShown ==
    CASE search_res[1].id = "c1" -> "Gia: 35,990,000 VND"
      [] search_res[1].id = "c4" -> "Gia: 22,990,000 VND"
      [] search_res[1].id = "c9" -> "Gia: 15,990,000 VND"
      [] OTHER -> "Gia: Lien he"
UspText ==
    IF ~req.verbose /\ Best.usp # None /\ Best.usp # ""
    THEN " Diem noi bat: " \o Best.usp \o "." ELSE ""
AlternatesText ==
    IF Len(search_res) = 1 THEN ""
    ELSE IF Len(search_res) = 2
    THEN " Ngoai ra co: " \o Catalogue[search_res[2].id].name \o "."
    ELSE " Ngoai ra co: " \o Catalogue[search_res[2].id].name \o ", "
         \o Catalogue[search_res[3].id].name \o "."
FollowUpText ==
    IF ~req.verbose THEN " Anh/chi co muon xem chi tiet thong so khong a?" ELSE ""
AnswerTail == UspText \o AlternatesText \o FollowUpText
AnswerBody == SubSeq(resp.answer, 1, Len(resp.answer) - Len(AnswerTail))

\* C25: the answer composed for a non-empty context (whose alternates have
\* names) is, in this order: a sentence holding the first entry's name and
\* then its price (the formatted amount, or the contact-us wording when the
\* price is absent or zero); the selling-point sentence only when not
\* verbose and the first entry has one; the alternates sentence only when
\* the context has more than one entry, listing exactly the names of entries
\* 2 and 3; the follow-up question only when not verbose.
C25_AnswerLayout ==
    Composed =>
        /\ Len(resp.answer) > Len(AnswerTail)
        /\ SubSeq(resp.answer, Len(AnswerBody) + 1, Len(resp.answer)) = AnswerTail
        /\ \E i, j \in 1..Len(AnswerBody) :
              /\ StartsAt(AnswerBody, i, BestName)
              /\ StartsAt(AnswerBody, j, PriceShown)
              /\ i + Len(BestName) <= j
        /\ ~Contains(AnswerBody, " Diem noi bat: ")
        /\ ~Contains(AnswerBody, " Ngoai ra co: ")
        /\ ~Contains(AnswerBody, " Anh/chi co muon xem chi tiet thong so khong a?")

\* a short answer for a context of four: selling point, the second and third
\* names, the follow-up question; the fourth name is not listed
C25_Witness ==
    /\ Composed /\ ~req.verbose /\ req.intent = "GAMING"
    /\ Len(search_res) = 4
    /\ search_res[1].id = "c1" /\ search_res[2].id = "c3"
    /\ search_res[3].id = "c4" /\ search_res[4].id = "c9"
    /\ Contains(resp.answer, "Gia: 35,990,000 VND. Diem noi bat: RTX 4060. Ngoai ra co: Dell XPS 13, iPhone 15. Anh/chi")
    /\ ~Contains(resp.answer, "HP Pavilion 15")

(***************************************************************************)
(* The two normalizers applied, and applied again to their own output, to  *)
(* short texts over letters, a combining mark and white space              *)
(***************************************************************************)
MaxText == 3
TextChars == {"J", "j", "~", " ", "x", "%"}

\* Texts of at most n characters
RECURSIVE Texts(_)
Texts(n) ==
    IF n = 0 THEN {""}
    ELSE Texts(n - 1) \cup {t \o c : t \in Texts(n - 1), c \in TextChars}

Normalizers == {"normalize_for_embed", "normalize_for_match"}

\* req.query holds the text handed to the normalizer
InitNormalize ==
    /\ embedder = QueryEmbedder(TRUE, FALSE)
    /\ ENABLE_RERANK = FALSE
    /\ RERANK_POOL = 0
    /\ cross_encoder = FALSE
    /\ collection = <<>>
    /\ req \in {[NoRequest EXCEPT !.query = t] : t \in Texts(MaxText)}
    /\ resp = NoResponse
    /\ search_res = <<>>
    /\ calls = NoCalls
    /\ inflight = NoWorkers

\* The text given first, afterwards the value returned last
NextText == IF req.op = "none" THEN req.query ELSE resp.detail

\* text = normalize_for_embed(text); the value is kept in resp.detail
NormalizeForEmbed ==
    /\ req' = [op |-> "normalize_for_embed", query |-> NextText, top_k |-> 0]
    /\ resp' = [NoResponse EXCEPT !.detail = normalize_for_embed(NextText)]
    /\ UNCHANGED <<embedder, ENABLE_RERANK, RERANK_POOL, cross_encoder, collection,
                   search_res, calls, inflight>>

\* t = normalize_for_match(text); the value is kept in resp.detail
NormalizeForMatch ==
    /\ req' = [op |-> "normalize_for_match", query |-> NextText, top_k |-> 0]
    /\ resp' = [NoResponse EXCEPT !.detail = normalize_for_match(NextText)]
    /\ UNCHANGED <<embedder, ENABLE_RERANK, RERANK_POOL, cross_encoder, collection,
                   search_res, calls, inflight>>

NextNormalize == NormalizeForEmbed \/ NormalizeForMatch

SpecNormalize == InitNormalize /\ [][NextNormalize]_vars

\* C26: both normalizers are idempotent: whenever a normalizer is applied to
\* a value it returned itself, it returns that value again.
C26_Idempotent ==
    [][(req.op \in Normalizers /\ req'.op = req.op) => resp'.detail = resp.detail]_vars

(***************************************************************************)
(* Chat asked with each keyword of the intent rules as the whole query     *)
(***************************************************************************)
KeywordTopKs == {1, 3}

InitKeywords ==
    /\ embedder = QueryEmbedder(TRUE, FALSE)
    /\ ENABLE_RERANK = FALSE
    /\ RERANK_POOL = 0
    /\ cross_encoder = FALSE
    /\ collection \in {<<>>, <<"c1", "c4">>}
    /\ req = NoRequest
    /\ resp = NoResponse
    /\ search_res = <<>>
    /\ calls = NoCalls
    /\ inflight = NoWorkers

NextKeywords ==
    \/ \E query \in IntentKeywords, top_k \in KeywordTopKs, env \in Envs :
          Chat(query, top_k, env)
    \/ Respond

SpecKeywords == InitKeywords /\ [][NextKeywords]_vars

OodKeywords == UNION {ood_groups[g].keywords : g \in 1..Len(ood_groups)}
OodLabels == {ood_groups[g].label : g \in 1..Len(ood_groups)}

\* C27: a Chat query that consists of one keyword of the intent rules is not
\* classified out-of-domain: no out-of-domain keyword occurs in it, the
\* answer is not the out-of-domain apology and the request reaches
\* retrieval.
C27_KeywordsUsable ==
    (ChatHandled /\ req.query \in IntentKeywords) =>
        /\ \A o \in OodKeywords : ~Contains(normalize_for_match(req.query), o)
        /\ \A label \in OodLabels : resp.answer # OodAnswer(label)
        /\ calls.embed = 1

\* C28: a Chat request whose retrieval succeeded ends with an answer: the
\* composer returns a text for every non-empty context, a context with a
\* nameless candidate at position 2 or 3 included, and raises nothing while
\* it lists the alternates.
C28_AlternatesComposed ==
    (ChatHandled /\ calls.store = 1 /\ resp.detail # "Vector DB error") =>
        /\ resp.detail # TypeError
        /\ resp.status = 200
        /\ resp.answer # ""

(***************************************************************************)
(* Chat asked for a phone against stores of phones, phone accessories,     *)
(* tablets and network devices                                             *)
(***************************************************************************)
MaxPhoneStore == 3
PhoneIds == {"c4", "c6", "c7", "c8", "c12"}
PhoneTopKs == {1, 2, 3}

\* Stores of at most n pairwise distinct documents
RECURSIVE PhoneStores(_)
PhoneStores(n) ==
    IF n = 0 THEN {<<>>}
    ELSE PhoneStores(n - 1) \cup
         {Append(p[1], p[2]) :
             p \in {x \in PhoneStores(n - 1) \X PhoneIds :
                       /\ Len(x[1]) = n - 1
                       /\ \A k \in 1..Len(x[1]) : x[1][k] # x[2]}}

InitPhone ==
    /\ embedder = QueryEmbedder(TRUE, FALSE)
    /\ ENABLE_RERANK = FALSE
    /\ RERANK_POOL = 0
    /\ cross_encoder = FALSE
    /\ collection \in PhoneStores(MaxPhoneStore)
    /\ req = NoRequest
    /\ resp = NoResponse
    /\ search_res = <<>>
    /\ calls = NoCalls
    /\ inflight = NoWorkers

NextPhone ==
    \/ \E top_k \in PhoneTopKs, env \in Envs : Chat("iphone", top_k, env)
    \/ Respond

SpecPhone == InitPhone /\ [][NextPhone]_vars

\* C29: for a PHONE query the relaxed predicate accepts no pool candidate
\* that the strict filter rejected, backfill adds nothing, and the context
\* is the first top_k strict survivors.
C29_PhoneBackfillAddsNothing ==
    (ChatDone /\ ReqIntent = "PHONE") =>
        /\ \A j \in PoolIndexes :
              DocPhoneCandidate(search_res[j].id) => Strict(search_res[j])
        /\ Backfilled = {}
        /\ resp.results = SubSeq(StrictSurvivors, 1, KeptStrict)

\* the only strict survivor carries its brand with a diacritic in the name;
\* the case without a signal and the router without a brand cue are neither
\* kept nor backfilled, and the context stays shorter than top_k
C29_Witness ==
    /\ ChatDone /\ ReqIntent = "PHONE" /\ req.top_k = 3
    /\ collection = <<"c7", "c12", "c8">>
    /\ Len(search_res) = 3
    /\ Len(resp.results) = 1 /\ resp.results[1].id = "c12"
    /\ ~DocPhoneCandidate("c12") /\ ~DocPhoneCandidate("c7")

\* C30: the Chat context never holds two entries of one product: entries
\* with distinct candidate ids have distinct product ids, so the name of the
\* top recommendation is not repeated among the alternates.
C30_OneEntryPerProduct ==
    ChatHandled =>
        \A i, j \in 1..Len(resp.results) :
            i # j => Catalogue[resp.results[i].id].product_id
                        # Catalogue[resp.results[j].id].product_id

=============================================================================
